---- MODULE Spec2Model ----
(***************************************************************************)
(* A model of the SArch32 assembler and linker (pi4erd/sarch_asm): the     *)
(* object generator (objgen.rs), its on-disk object format, and the linker *)
(* (linker.rs).  Names are sequences of one-character strings, so that the *)
(* prefix tests, concatenations and byte encodings of the code are         *)
(* computed rather than assumed.                                           *)
(***************************************************************************)
EXTENDS Integers, Sequences, FiniteSets, TLC

(***************************************************************************)
(* Generic helpers for Rust's Option and Vec.                              *)
(***************************************************************************)
\* Option<T>: None is the empty sequence, Some(x) the one-element sequence.
None == <<>>
Some(x) == <<x>>
IsSome(o) == Len(o) = 1
Unwrap(o) == o[1]

\* str::starts_with(prefix) on a name
starts_with(s, c) == Len(s) > 0 /\ s[1] = c

\* str::contains(ch) on a name
contains(s, c) == \E i \in 1..Len(s) : s[i] = c

\* a lookup table given as a sequence of <<key, value>> pairs
FromPairs(pairs) ==
    [k \in {pairs[i][1] : i \in DOMAIN pairs} |->
        pairs[CHOOSE i \in DOMAIN pairs : pairs[i][1] = k][2]]

\* str::bytes(): the byte values of the characters the model's names use
Ord ==
    FromPairs(<<
        <<"a", 97>>, <<"b", 98>>, <<"c", 99>>, <<"d", 100>>,
        <<"e", 101>>, <<"f", 102>>, <<"g", 103>>, <<"h", 104>>,
        <<"i", 105>>, <<"j", 106>>, <<"k", 107>>, <<"l", 108>>,
        <<"m", 109>>, <<"n", 110>>, <<"o", 111>>, <<"p", 112>>,
        <<"q", 113>>, <<"r", 114>>, <<"s", 115>>, <<"t", 116>>,
        <<"u", 117>>, <<"v", 118>>, <<"w", 119>>, <<"x", 120>>,
        <<"y", 121>>, <<"z", 122>>, <<"A", 65>>, <<"B", 66>>,
        <<"C", 67>>, <<"D", 68>>, <<"E", 69>>, <<"F", 70>>,
        <<"G", 71>>, <<"H", 72>>, <<"I", 73>>, <<"J", 74>>,
        <<"K", 75>>, <<"L", 76>>, <<"M", 77>>, <<"N", 78>>,
        <<"O", 79>>, <<"P", 80>>, <<"Q", 81>>, <<"R", 82>>,
        <<"S", 83>>, <<"T", 84>>, <<"U", 85>>, <<"V", 86>>,
        <<"W", 87>>, <<"X", 88>>, <<"Y", 89>>, <<"Z", 90>>,
        <<"0", 48>>, <<"1", 49>>, <<"2", 50>>, <<"3", 51>>,
        <<"4", 52>>, <<"5", 53>>, <<"6", 54>>, <<"7", 55>>,
        <<"8", 56>>, <<"9", 57>>, <<"@", 64>>, <<"_", 95>>
    >>)

bytes(s) == [i \in 1..Len(s) |-> Ord[s[i]]]

(***************************************************************************)
(* symbols.rs: argument types, the instruction table, condition codes;     *)
(* parser.rs: the register tables.                                         *)
(***************************************************************************)
\* ArgumentTypes::get_size
ArgSize(t) ==
    IF t \in {"AbsPointer", "RelPointer", "FloatingPoint", "Immediate32"} THEN 4
    ELSE IF t = "Immediate16" THEN 2
    ELSE 1

ilist ==
    FromPairs(<<
        <<<<"n", "o", "p">>, [opcode |-> 0, args |-> <<>>]>>,
        <<<<"h", "a", "l", "t">>, [opcode |-> 1, args |-> <<>>]>>,
        <<<<"r", "a", "d", "d">>, [opcode |-> 2, args |-> <<"Register32", "Register32">>]>>,
        <<<<"i", "a", "d", "d">>, [opcode |-> 3, args |-> <<"Immediate32", "Register32">>]>>,
        <<<<"l", "o", "a", "d", "m", "d">>, [opcode |-> 4, args |-> <<"AbsPointer", "Register32">>]>>,
        <<<<"l", "o", "a", "d", "i", "d">>, [opcode |-> 5, args |-> <<"Immediate32", "Register32">>]>>,
        <<<<"m", "a", "d", "d">>, [opcode |-> 6, args |-> <<"AbsPointer", "Register32">>]>>,
        <<<<"l", "o", "a", "d", "m", "b">>, [opcode |-> 7, args |-> <<"AbsPointer", "Register8">>]>>,
        <<<<"l", "o", "a", "d", "i", "b">>, [opcode |-> 8, args |-> <<"Immediate8", "Register8">>]>>,
        <<<<"j", "m", "p">>, [opcode |-> 9, args |-> <<"AbsPointer">>]>>,
        <<<<"j", "p", "c">>, [opcode |-> 10, args |-> <<"AbsPointer", "Condition">>]>>,
        <<<<"c", "a", "l", "l">>, [opcode |-> 11, args |-> <<"AbsPointer">>]>>,
        <<<<"j", "p", "r">>, [opcode |-> 12, args |-> <<"RelPointer">>]>>,
        <<<<"j", "r", "c">>, [opcode |-> 13, args |-> <<"RelPointer", "Condition">>]>>,
        <<<<"c", "a", "l", "l", "r">>, [opcode |-> 14, args |-> <<"RelPointer">>]>>,
        <<<<"p", "u", "s", "h">>, [opcode |-> 15, args |-> <<"Register32">>]>>,
        <<<<"p", "o", "p">>, [opcode |-> 16, args |-> <<"Register32">>]>>,
        <<<<"r", "e", "t">>, [opcode |-> 17, args |-> <<>>]>>,
        <<<<"m", "o", "v", "r", "d">>, [opcode |-> 18, args |-> <<"Register32", "Register32">>]>>,
        <<<<"m", "o", "v", "r", "w">>, [opcode |-> 19, args |-> <<"Register16", "Register16">>]>>,
        <<<<"m", "o", "v", "r", "b">>, [opcode |-> 20, args |-> <<"Register8", "Register8">>]>>,
        <<<<"i", "n", "t">>, [opcode |-> 21, args |-> <<"Immediate8">>]>>,
        <<<<"i", "s", "u", "b">>, [opcode |-> 22, args |-> <<"Immediate32", "Register32">>]>>,
        <<<<"m", "s", "u", "b">>, [opcode |-> 23, args |-> <<"AbsPointer", "Register32">>]>>,
        <<<<"r", "s", "u", "b">>, [opcode |-> 24, args |-> <<"Register32", "Register32">>]>>,
        <<<<"n", "g", "i">>, [opcode |-> 25, args |-> <<"Register32">>]>>,
        <<<<"r", "m", "u", "l", "s", "d">>, [opcode |-> 26, args |-> <<"Register32", "Register32">>]>>,
        <<<<"r", "d", "i", "v", "s", "d">>, [opcode |-> 27, args |-> <<"Register32", "Register32">>]>>,
        <<<<"r", "m", "u", "l", "u", "d">>, [opcode |-> 28, args |-> <<"Register32", "Register32">>]>>,
        <<<<"r", "d", "i", "v", "u", "d">>, [opcode |-> 29, args |-> <<"Register32", "Register32">>]>>,
        <<<<"i", "m", "u", "l", "s", "d">>, [opcode |-> 30, args |-> <<"Immediate32", "Register32">>]>>,
        <<<<"i", "d", "i", "v", "s", "d">>, [opcode |-> 31, args |-> <<"Immediate32", "Register32">>]>>,
        <<<<"i", "m", "u", "l", "u", "d">>, [opcode |-> 32, args |-> <<"Immediate32", "Register32">>]>>,
        <<<<"i", "d", "i", "v", "u", "d">>, [opcode |-> 33, args |-> <<"Immediate32", "Register32">>]>>,
        <<<<"c", "v", "s", "d", "f">>, [opcode |-> 34, args |-> <<"Register32">>]>>,
        <<<<"c", "v", "f", "s", "d">>, [opcode |-> 35, args |-> <<"Register32">>]>>
    >>)

conditions ==
    FromPairs(<<
        <<<<"O", "V">>, 0>>,
        <<<<"C", "R">>, 1>>,
        <<<<"N", "G">>, 2>>,
        <<<<"Z", "R">>, 3>>,
        <<<<"N", "V">>, 32>>,
        <<<<"N", "C">>, 33>>,
        <<<<"N", "N">>, 34>>,
        <<<<"N", "Z">>, 35>>,
        <<<<"I", "L", "F">>, 64>>,
        <<<<"H", "L", "F">>, 65>>,
        <<<<"I", "D", "F">>, 66>>,
        <<<<"N", "I", "L", "F">>, 96>>,
        <<<<"N", "H", "L", "F">>, 97>>,
        <<<<"N", "I", "D", "F">>, 98>>
    >>)

registers32 ==
    FromPairs(<<
        <<<<"r", "0">>, 0>>,
        <<<<"r", "1">>, 1>>,
        <<<<"r", "2">>, 2>>,
        <<<<"r", "3">>, 3>>,
        <<<<"r", "4">>, 4>>,
        <<<<"r", "5">>, 5>>,
        <<<<"r", "6">>, 6>>,
        <<<<"r", "7">>, 7>>,
        <<<<"r", "8">>, 8>>,
        <<<<"r", "9">>, 9>>,
        <<<<"r", "a">>, 10>>,
        <<<<"r", "b">>, 11>>,
        <<<<"r", "c">>, 12>>,
        <<<<"r", "d">>, 13>>,
        <<<<"r", "e">>, 14>>,
        <<<<"r", "f">>, 15>>,
        <<<<"i", "p">>, 16>>,
        <<<<"s", "r">>, 17>>,
        <<<<"m", "f", "r">>, 18>>,
        <<<<"s", "p">>, 19>>,
        <<<<"b", "p">>, 20>>,
        <<<<"t", "p", "t", "r">>, 21>>
    >>)

registers16 ==
    FromPairs(<<
        <<<<"r", "0", "0">>, 0>>,
        <<<<"r", "0", "1">>, 1>>,
        <<<<"r", "1", "0">>, 2>>,
        <<<<"r", "1", "1">>, 3>>,
        <<<<"r", "2", "0">>, 4>>,
        <<<<"r", "2", "1">>, 5>>,
        <<<<"r", "3", "0">>, 6>>,
        <<<<"r", "3", "1">>, 7>>,
        <<<<"r", "4", "0">>, 8>>,
        <<<<"r", "4", "1">>, 9>>,
        <<<<"r", "5", "0">>, 10>>,
        <<<<"r", "5", "1">>, 11>>,
        <<<<"r", "6", "0">>, 12>>,
        <<<<"r", "6", "1">>, 13>>,
        <<<<"r", "7", "0">>, 14>>,
        <<<<"r", "7", "1">>, 15>>,
        <<<<"r", "8", "0">>, 16>>,
        <<<<"r", "8", "1">>, 17>>,
        <<<<"r", "9", "0">>, 18>>,
        <<<<"r", "9", "1">>, 19>>,
        <<<<"r", "a", "0">>, 20>>,
        <<<<"r", "a", "1">>, 21>>,
        <<<<"r", "b", "0">>, 22>>,
        <<<<"r", "b", "1">>, 23>>,
        <<<<"r", "c", "0">>, 24>>,
        <<<<"r", "c", "1">>, 25>>,
        <<<<"r", "d", "0">>, 26>>,
        <<<<"r", "d", "1">>, 27>>,
        <<<<"r", "e", "0">>, 28>>,
        <<<<"r", "e", "1">>, 29>>,
        <<<<"r", "f", "0">>, 30>>,
        <<<<"r", "f", "1">>, 31>>
    >>)

registers8 ==
    FromPairs(<<
        <<<<"r", "0", "0", "l">>, 0>>,
        <<<<"r", "0", "0", "h">>, 1>>,
        <<<<"r", "0", "1", "l">>, 2>>,
        <<<<"r", "0", "1", "h">>, 3>>,
        <<<<"r", "1", "0", "l">>, 4>>,
        <<<<"r", "1", "0", "h">>, 5>>,
        <<<<"r", "1", "1", "l">>, 6>>,
        <<<<"r", "1", "1", "h">>, 7>>,
        <<<<"r", "2", "0", "l">>, 8>>,
        <<<<"r", "2", "0", "h">>, 9>>,
        <<<<"r", "2", "1", "l">>, 10>>,
        <<<<"r", "2", "1", "h">>, 11>>,
        <<<<"r", "3", "0", "l">>, 12>>,
        <<<<"r", "3", "0", "h">>, 13>>,
        <<<<"r", "3", "1", "l">>, 14>>,
        <<<<"r", "3", "1", "h">>, 15>>,
        <<<<"r", "4", "0", "l">>, 16>>,
        <<<<"r", "4", "0", "h">>, 17>>,
        <<<<"r", "4", "1", "l">>, 18>>,
        <<<<"r", "4", "1", "h">>, 19>>,
        <<<<"r", "5", "0", "l">>, 20>>,
        <<<<"r", "5", "0", "h">>, 21>>,
        <<<<"r", "5", "1", "l">>, 22>>,
        <<<<"r", "5", "1", "h">>, 23>>,
        <<<<"r", "6", "0", "l">>, 24>>,
        <<<<"r", "6", "0", "h">>, 25>>,
        <<<<"r", "6", "1", "l">>, 26>>,
        <<<<"r", "6", "1", "h">>, 27>>,
        <<<<"r", "7", "0", "l">>, 28>>,
        <<<<"r", "7", "0", "h">>, 29>>,
        <<<<"r", "7", "1", "l">>, 30>>,
        <<<<"r", "7", "1", "h">>, 31>>
    >>)

\* Instructions::get_opcode
get_opcode(name) == IF name \in DOMAIN ilist THEN Some(ilist[name].opcode) ELSE None

\* Instructions::get_instruction (the entry with this opcode)
get_instruction(opcode) ==
    LET hits == {m \in DOMAIN ilist : ilist[m].opcode = opcode}
    IN  IF hits = {} THEN None ELSE Some(ilist[CHOOSE m \in hits : TRUE])

\* Instruction::extended_opcode: bit 7 of the opcode
extended_opcode(instruction) == (instruction.opcode \div 128) % 2 = 1

RECURSIVE SumArgSizes(_)
SumArgSizes(args) ==
    IF args = <<>> THEN 0 ELSE ArgSize(Head(args)) + SumArgSizes(Tail(args))

\* Instruction::get_size
InstructionSize(instruction) ==
    (IF extended_opcode(instruction) THEN 2 ELSE 1) + SumArgSizes(instruction.args)

\* Conditions::get_condition
get_condition(name) == IF name \in DOMAIN conditions THEN Some(conditions[name]) ELSE None

\* Registers::get32 / get16 / get8
get32(name) == IF name \in DOMAIN registers32 THEN Some(registers32[name]) ELSE None
get16(name) == IF name \in DOMAIN registers16 THEN Some(registers16[name]) ELSE None
get8(name) == IF name \in DOMAIN registers8 THEN Some(registers8[name]) ELSE None

(***************************************************************************)
(* objgen.rs: the object model.                                            *)
(***************************************************************************)
\* ConstantSize::to_u8 / get_size
to_u8(size) == CASE size = "Byte" -> 1 [] size = "Word" -> 2 [] size = "DoubleWord" -> 4

\* ConstantSize::from_u8
from_u8(n) ==
    CASE n = 1 -> Some("Byte") [] n = 2 -> Some("Word") [] n = 4 -> Some("DoubleWord")
      [] OTHER -> None

\* struct Reference / Constant / InstructionData / ObjectLabelSymbol
Reference(argument_pos, rf) == [argument_pos |-> argument_pos, rf |-> rf]
Constant(argument_pos, size, value) ==
    [argument_pos |-> argument_pos, size |-> size, value |-> value]
InstructionData(opcode, references, constants) ==
    [opcode |-> opcode, references |-> references, constants |-> constants]
ObjectLabelSymbol(name, ptr) == [name |-> name, ptr |-> ptr]

\* struct BinaryUnit with its two Option fields
BinaryConstUnit(size, value) ==
    [reference |-> None, constant |-> Some([size |-> size, value |-> value])]
BinaryRefUnit(size, rf) ==
    [reference |-> Some([rf |-> rf, size |-> size]), constant |-> None]

\* BinaryUnit::get_size
UnitSize(unit) ==
    IF IsSome(unit.constant) THEN Some(to_u8(Unwrap(unit.constant).size))
    ELSE IF IsSome(unit.reference) THEN Some(to_u8(Unwrap(unit.reference).size))
    ELSE None

\* HashMap::insert on a map kept as a function
Insert(map, key, val) == [k \in (DOMAIN map) \cup {key} |-> IF k = key THEN val ELSE map[k]]

\* the empty HashMap
EmptyMap == [k \in {} |-> 0]

\* the default section name
DEFAULT_SECTION_NAME == <<"t", "e", "x", "t">>

\* SectionData::new
NewSection ==
    [name |-> DEFAULT_SECTION_NAME, instructions |-> <<>>, labels |-> EmptyMap,
     binary_data |-> <<>>, binary_section |-> FALSE]

\* parser nodes: node_type, the text of an identifier/register/string, the
\* value of an integer (or the bit pattern of a float)
Node(node_type, text, value) == [node_type |-> node_type, text |-> text, value |-> value]
Identifier(name) == Node("Identifier", name, 0)
ConstInteger(n) == Node("ConstInteger", <<>>, n)
ConstFloat(bits) == Node("ConstFloat", <<>>, bits)
Register(name) == Node("Register", name, 0)
StringNode(s) == Node("String", s, 0)
Expression == Node("Expression", <<>>, 0)

\* an Expression node as parse_expression builds it for `(lhs op rhs)`: the
\* BinaryOp and the two operand nodes as children
BinaryExpression(op, lhs, rhs) ==
    [node_type |-> "Expression", text |-> <<>>, value |-> 0, op |-> op,
     children |-> <<lhs, rhs>>]

(***************************************************************************)
(* The state of one assembler run.                                         *)
(***************************************************************************)
VARIABLES
    last_label,        \* Parser.last_label
    sections,          \* ObjectFormat.sections: name -> SectionData
    defines,           \* ObjectFormat.defines: name -> node
    sections_length,   \* ObjectFormat.header.sections_length
    current_section,   \* ObjectFormat.current_section
    current_label,     \* the local current_label of load_parser_node
    status,            \* "loading", then "ok" | "err" | "abort" (a panic)
    nstmts,            \* statements processed so far
    cur_node,          \* Option: the child node load_parser_node took last
    objfile,           \* Option: the bytes of the object file written or read
    loaded,            \* Option: what ObjectFormat::from_bytes made of objfile
    link_structure,    \* Linker.link_structure: the link sections in order
    section_symbols,   \* Linker.section_symbols: name -> SectionData
    section_binaries,  \* Linker.section_binaries: name -> Vec<u8>
    link_status,       \* "new", "loaded", then "ok" | "err" | "abort" (a panic)
    nobjects,          \* objects handed to load_symbols so far
    image,             \* Option: the image generate_binary returned
    section_starts,    \* for each link section appended, the image length before it
    link_error,        \* Option: the message of the Err generate_binary returned
    entrypoint,        \* Option: the label of main's entry point, once its jumper is loaded
    pp_iter,           \* the token iterator of the Preprocessor of main's lex
    pp_new,            \* its new tokens; when it has returned, the tokens to parse
    macro_list,        \* Preprocessor.macro_list: name -> Macro
    included,          \* the driver's map of included files: path -> text
    reads,             \* for each path, how often the file was read from disk
    pp_status,         \* "idle", "run", then "ok" | "err"
    parse_pos,         \* tokens the iterator of Parser::parse has handed out
    parse_prev,        \* Option: parse_pos before the last parse_top_level
    root,              \* Parser.root.children
    parse_status,      \* "idle", "run", then "ok" | "err"
    lexer              \* the logos lexer of tokenize_internal and the tokens pushed so far

genvars == <<last_label, sections, defines, sections_length, current_section,
             current_label, status, nstmts, cur_node>>
objvars == <<objfile, loaded>>
linkvars == <<link_structure, section_symbols, section_binaries, link_status, nobjects,
              image, section_starts, link_error, entrypoint>>
frontvars == <<pp_iter, pp_new, macro_list, included, reads, pp_status, parse_pos,
               parse_prev, root, parse_status, lexer>>

\* the define-alias depth limit of resolve_define
MAX_DEFINE_DEPTH == 100

PushConstant(instr, c) == [instr EXCEPT !.constants = Append(@, c)]
PushReference(instr, r) == [instr EXCEPT !.references = Append(@, r)]

\* the outcome of resolving one argument: Ok(()) or Err, the instruction as
\* it then is, and the depth of the last resolve_define call made for it
Ok(instr, depth) == [ok |-> TRUE, instr |-> instr, depth |-> depth]
Err(instr, depth) == [ok |-> FALSE, instr |-> instr, depth |-> depth]

\* ResolveDefineLiteral pushing a word where a double word is expected
ResolveDefineLiteralWord(arg, instr, expected_argument, node, depth) ==
    IF node.node_type \in {"ConstInteger", "ConstFloat"}
    THEN Ok(PushConstant(instr, Constant(arg, "Word", node.value % 65536)), depth)
    ELSE Err(instr, depth)

\* the literal branch of resolve_define: the match on expected_argument
ResolveDefineLiteral(arg, instr, expected_argument, node, depth) ==
    IF expected_argument \in {"FloatingPoint", "AbsPointer", "RelPointer", "Immediate32"}
    THEN IF node.node_type \in {"ConstInteger", "ConstFloat"}
         THEN Ok(PushConstant(instr, Constant(arg, "DoubleWord", node.value)), depth)
         ELSE Err(instr, depth)
    ELSE IF expected_argument = "Immediate16"
    THEN IF node.node_type = "ConstInteger"
         THEN Ok(PushConstant(instr, Constant(arg, "Word", node.value % 65536)), depth)
         ELSE Err(instr, depth)
    ELSE IF expected_argument = "Immediate8"
    THEN IF node.node_type = "ConstInteger"
         THEN Ok(PushConstant(instr, Constant(arg, "Byte", node.value % 256)), depth)
         ELSE Err(instr, depth)
    ELSE Err(instr, depth)

\* DefineStep with the limit one lower: no call is made from depth
\* MAX_DEFINE_DEPTH
DefineStepShort(s) ==
    IF /\ s.define_symbol.node_type = "Identifier"
       /\ ~(s.depth >= MAX_DEFINE_DEPTH)
       /\ s.define_symbol.text \in DOMAIN defines
    THEN [define_symbol |-> defines[s.define_symbol.text], depth |-> s.depth + 1]
    ELSE s

\* One recursive call of resolve_define, as a step on (define_symbol, depth):
\* an identifier within the depth limit that names a define leads to the call
\* on that define's node at depth + 1; every other call returns, and is left
\* as it is.
DefineStep(s) ==
    IF /\ s.define_symbol.node_type = "Identifier"
       /\ ~(s.depth > MAX_DEFINE_DEPTH)
       /\ s.define_symbol.text \in DOMAIN defines
    THEN [define_symbol |-> defines[s.define_symbol.text], depth |-> s.depth + 1]
    ELSE s

\* more than n \div 2 and at most n calls in a row, stopping at a call that
\* returns; the depth limit lets fewer than MAX_DEFINE_DEPTH + 2 calls recurse
RECURSIVE DefineCalls(_, _)
DefineCalls(s, n) ==
    IF n = 1 THEN DefineStep(s)
    ELSE LET t == DefineCalls(s, n \div 2)
         IN  IF t = s THEN s ELSE DefineCalls(t, n \div 2)

\* DefineReturn without the depth check: an identifier always returns Ok
DefineReturnUnchecked(arg, instr, expected_argument, define_symbol, depth) ==
    IF define_symbol.node_type = "Identifier"
    THEN Ok(instr, depth)
    ELSE ResolveDefineLiteral(arg, instr, expected_argument, define_symbol, depth)

\* the call of resolve_define that returns: the depth check, the identifier
\* that names no define (Ok, nothing pushed), or the literal match
DefineReturn(arg, instr, expected_argument, define_symbol, depth) ==
    IF define_symbol.node_type = "Identifier"
    THEN IF depth > MAX_DEFINE_DEPTH
         THEN Err(instr, depth)
         ELSE Ok(instr, depth)
    ELSE ResolveDefineLiteral(arg, instr, expected_argument, define_symbol, depth)

\* ObjectFormat::resolve_define: the chain of recursive calls, then the call
\* that returns
resolve_define(arg, instr, expected_argument, define_symbol, depth) ==
    LET last == DefineCalls([define_symbol |-> define_symbol, depth |-> depth],
                            2 * MAX_DEFINE_DEPTH)
    IN  DefineReturn(arg, instr, expected_argument, last.define_symbol, last.depth)

\* the identifier that resolve_instruction puts in a reference
MangleReference(identifier_name, cur_label) ==
    IF starts_with(identifier_name, "@") THEN cur_label \o identifier_name
    ELSE IF identifier_name = <<"@">> THEN cur_label
    ELSE identifier_name

\* the register branch of resolve_instruction
ResolveRegister(arg, instr, expected_argument, index) ==
    LET r == CASE expected_argument = "Register16" -> get16(arg.text)
               [] expected_argument = "Register32" -> get32(arg.text)
               [] expected_argument = "Register8" -> get8(arg.text)
               [] OTHER -> None
    IN  IF IsSome(r)
        THEN Ok(PushConstant(instr, Constant(index, "Byte", Unwrap(r))), 0)
        ELSE Err(instr, 0)

\* ObjectFormat::resolve_instruction
resolve_instruction(arg, instr, expected_argument, index, cur_label) ==
    CASE arg.node_type = "Identifier" ->
           IF arg.text \in DOMAIN defines
           THEN resolve_define(index, instr, expected_argument, defines[arg.text], 0)
           ELSE IF expected_argument = "Condition"
           THEN LET cond == get_condition(arg.text)
                IN  IF IsSome(cond)
                    THEN Ok(PushConstant(instr, Constant(index, "Byte", Unwrap(cond))), 0)
                    ELSE Err(instr, 0)
           ELSE Ok(PushReference(instr,
                       Reference(index, MangleReference(arg.text, cur_label))), 0)
      [] arg.node_type = "ConstFloat" ->
           IF expected_argument \in {"FloatingPoint", "Immediate32"}
           THEN Ok(PushConstant(instr, Constant(index, "DoubleWord", arg.value)), 0)
           ELSE Err(instr, 0)
      [] arg.node_type = "ConstInteger" ->
           IF expected_argument \in {"AbsPointer", "RelPointer", "Immediate32"}
           THEN Ok(PushConstant(instr, Constant(index, "DoubleWord", arg.value)), 0)
           ELSE IF expected_argument = "Immediate16"
           THEN Ok(PushConstant(instr, Constant(index, "Word", arg.value % 65536)), 0)
           ELSE IF expected_argument = "Immediate8"
           THEN Ok(PushConstant(instr, Constant(index, "Byte", arg.value % 256)), 0)
           ELSE Err(instr, 0)
      [] arg.node_type = "Register" ->
           ResolveRegister(arg, instr, expected_argument, index)
      [] OTHER -> Err(instr, 0)

\* the argument loop of process_instruction, from argument i (0-based) on;
\* stops at the first error
RECURSIVE ResolveArgs(_, _, _, _, _)
ResolveArgs(children, args, instr, i, cur_label) ==
    IF i >= Len(children) THEN Ok(instr, 0)
    ELSE LET r == resolve_instruction(children[i + 1], instr, args[i + 1], i, cur_label)
         IN  IF ~r.ok THEN r
             ELSE ResolveArgs(children, args, r.instr, i + 1, cur_label)

\* ObjectFormat::process_instruction up to the push: the instruction built,
\* or an error
BuildInstruction(name, children, cur_label) ==
    LET opcode == get_opcode(name)
    IN  IF ~IsSome(opcode) THEN Err(InstructionData(0, <<>>, <<>>), 0)
        ELSE LET instruction == Unwrap(get_instruction(Unwrap(opcode)))
             IN  IF Len(instruction.args) # Len(children)
                 THEN Err(InstructionData(Unwrap(opcode), <<>>, <<>>), 0)
                 ELSE ResolveArgs(children, instruction.args,
                                  InstructionData(Unwrap(opcode), <<>>, <<>>), 0, cur_label)

(***************************************************************************)
(* objgen.rs: compiler instructions, working on the current section.       *)
(***************************************************************************)
\* the size of the unit that .db / .dw / .dd appends for an integer literal
IntegerUnitSize(directive, num) ==
    CASE directive = "db" -> IF num < 256 THEN "Byte"
                             ELSE IF num < 65536 THEN "Word" ELSE "DoubleWord"
      [] directive = "dw" -> "Word"
      [] directive = "dd" -> "DoubleWord"

\* the size of the unit that .db / .dw / .dd appends for an identifier or
\* for each byte of a string
DirectiveUnitSize(directive) ==
    CASE directive = "db" -> "Byte" [] directive = "dw" -> "Word"
      [] directive = "dd" -> "DoubleWord"

\* one constant unit per byte of a string
StringUnits(directive, str) ==
    [i \in 1..Len(str) |-> BinaryConstUnit(DirectiveUnitSize(directive), Ord[str[i]])]

\* the loop over the children of _db_ci / _dw_ci / _dd_ci; a Negate or
\* Expression child reaches todo!() and panics ("abort")
RECURSIVE PushUnits(_, _, _)
PushUnits(directive, children, data) ==
    IF children = <<>> THEN [status |-> "loading", data |-> data]
    ELSE LET child == Head(children)
         IN  CASE child.node_type = "Identifier" ->
                    PushUnits(directive, Tail(children),
                        Append(data, BinaryRefUnit(DirectiveUnitSize(directive), child.text)))
               [] child.node_type = "ConstInteger" ->
                    PushUnits(directive, Tail(children),
                        Append(data, BinaryConstUnit(IntegerUnitSize(directive, child.value),
                                                     child.value)))
               [] child.node_type = "Expression" -> [status |-> "abort", data |-> data]
               [] child.node_type = "String" ->
                    PushUnits(directive, Tail(children),
                              data \o StringUnits(directive, child.text))
               [] OTHER -> [status |-> "err", data |-> data]

\* _db_ci / _dw_ci / _dd_ci applied to section sec: the section afterwards
\* and the outcome
DefineData(directive, children, sec) ==
    IF Len(sec.instructions) # 0 THEN [status |-> "err", sec |-> sec]
    ELSE IF Len(children) = 0 THEN [status |-> "err", sec |-> sec]
    ELSE LET r == PushUnits(directive, children, sec.binary_data)
         IN  [status |-> r.status,
              sec |-> [sec EXCEPT !.binary_section = TRUE, !.binary_data = r.data]]

\* _resb_ci applied to section sec
ReserveBytes(children, sec) ==
    IF Len(sec.instructions) # 0 THEN [status |-> "err", sec |-> sec]
    ELSE IF Len(children) = 0
    THEN [status |-> "err", sec |-> [sec EXCEPT !.binary_section = TRUE]]
    ELSE LET child == Head(children)
             zeros == IF child.node_type = "ConstInteger"
                      THEN [i \in 1..child.value |-> BinaryConstUnit("Byte", 0)]
                      ELSE <<>>
         IN  [status |-> "loading",
              sec |-> [sec EXCEPT !.binary_section = TRUE, !.binary_data = @ \o zeros]]

\* _data_ci applied to section sec; file is the Option of the bytes of the
\* file the path names
IncludeData(children, file, sec) ==
    IF ~sec.binary_section \/ Len(sec.instructions) # 0 THEN [status |-> "err", sec |-> sec]
    ELSE IF Len(children) = 0 THEN [status |-> "err", sec |-> sec]
    ELSE IF Head(children).node_type = "String" /\ IsSome(file)
    THEN [status |-> "loading",
          sec |-> [sec EXCEPT !.binary_data =
                      @ \o [i \in 1..Len(Unwrap(file)) |->
                               BinaryConstUnit("Byte", Unwrap(file)[i])]]]
    ELSE [status |-> "err", sec |-> sec]

Loading == status = "loading"

\* the children of a Program node: compiler instructions, instructions, labels
CompilerInstructionNode(name, children) ==
    [node_type |-> "CompilerInstruction", name |-> name, children |-> children]
InstructionNode(name, children) ==
    [node_type |-> "Instruction", name |-> name, children |-> children]
LabelNode(name) == [node_type |-> "Label", name |-> name, children |-> <<>>]

\* the node load_parser_node took last is an instruction node
AtInstruction == IsSome(cur_node) /\ Unwrap(cur_node).node_type = "Instruction"

\* .section: _section_ci
SectionCI(children) ==
    /\ Loading
    /\ nstmts' = nstmts + 1
    /\ cur_node' = Some(CompilerInstructionNode("section", children))
    /\ IF Len(children) = 0 \/ Head(children).node_type # "String"
       THEN /\ status' = "err"
            /\ UNCHANGED <<sections, sections_length, current_section>>
       ELSE LET name == Head(children).text
            IN  /\ current_section' = name
                /\ IF name \notin DOMAIN sections
                   THEN /\ sections' = Insert(sections, name, [NewSection EXCEPT !.name = name])
                        /\ sections_length' = sections_length + 1
                   ELSE UNCHANGED <<sections, sections_length>>
                /\ status' = status
    /\ UNCHANGED <<last_label, defines, current_label>>

\* .define: _define_ci; an Expression reaches evaluate_expression, which is
\* todo!() and panics
DefineCI(children) ==
    /\ Loading
    /\ nstmts' = nstmts + 1
    /\ cur_node' = Some(CompilerInstructionNode("define", children))
    /\ IF Len(children) < 2 \/ children[1].node_type # "Identifier"
       THEN status' = "err" /\ UNCHANGED defines
       ELSE IF children[2].node_type = "Expression"
       THEN status' = "abort" /\ UNCHANGED defines
       ELSE /\ defines' = Insert(defines, children[1].text, children[2])
            /\ status' = status
    /\ UNCHANGED <<last_label, sections, sections_length, current_section, current_label>>

\* .db / .dw / .dd / .resb / .data, and any other directive name
\* (do_compiler_instruction finds none and fails)
DataCI(directive, children, file) ==
    /\ Loading
    /\ nstmts' = nstmts + 1
    /\ cur_node' = Some(CompilerInstructionNode(directive, children))
    /\ IF current_section \notin DOMAIN sections \/ directive \notin {"db", "dw", "dd", "resb", "data"}
       THEN status' = "err" /\ UNCHANGED sections
       ELSE LET sec == sections[current_section]
                r == CASE directive \in {"db", "dw", "dd"} -> DefineData(directive, children, sec)
                       [] directive = "resb" -> ReserveBytes(children, sec)
                       [] directive = "data" -> IncludeData(children, file, sec)
            IN  /\ sections' = [sections EXCEPT ![current_section] = r.sec]
                /\ status' = r.status
    /\ UNCHANGED <<last_label, defines, sections_length, current_section, current_label>>

\* an instruction statement: process_instruction
InstructionStmt(name, children) ==
    /\ Loading
    /\ nstmts' = nstmts + 1
    /\ cur_node' = Some(InstructionNode(name, children))
    /\ LET r == BuildInstruction(name, children, current_label)
       IN  IF ~r.ok \/ current_section \notin DOMAIN sections
           THEN status' = "err" /\ UNCHANGED sections
           ELSE /\ sections' = [sections EXCEPT ![current_section].instructions =
                                                    Append(@, r.instr)]
                /\ status' = status
    /\ UNCHANGED <<last_label, defines, sections_length, current_section, current_label>>

\* Parser::parse_top_level on a Label token whose text (without ':') is txt:
\* the label name the parser hands on, and its new last_label
ParseLabel(txt) ==
    IF starts_with(txt, "@")
    THEN [label_text |-> last_label \o txt, last_label |-> last_label]
    ELSE [label_text |-> txt, last_label |-> txt]

\* a label statement: the parser's mangling, then the Label branch of
\* load_parser_node
LabelStmt(txt) ==
    /\ Loading
    /\ nstmts' = nstmts + 1
    /\ LET p == ParseLabel(txt)
           name == p.label_text
       IN  /\ last_label' = p.last_label
           /\ cur_node' = Some(LabelNode(name))
           /\ IF current_section \notin DOMAIN sections
              THEN status' = "err" /\ UNCHANGED <<sections, current_label>>
              ELSE LET sec == sections[current_section]
                       pointer == IF Len(sec.binary_data) = 0 THEN Len(sec.instructions)
                                  ELSE Len(sec.binary_data)
                   IN  IF name \in DOMAIN sec.labels
                       THEN status' = "err" /\ UNCHANGED <<sections, current_label>>
                       ELSE /\ sections' = [sections EXCEPT ![current_section].labels =
                                               Insert(@, name, ObjectLabelSymbol(name, pointer))]
                            /\ current_label' = IF ~contains(name, "@") THEN name
                                                ELSE current_label
                            /\ status' = status
    /\ UNCHANGED <<defines, sections_length, current_section>>

\* the end of the Program node's children: load_parser_node returns Ok
Finish ==
    /\ Loading
    /\ status' = "ok"
    /\ UNCHANGED <<last_label, sections, defines, sections_length, current_section,
                   current_label, nstmts, cur_node>>

(***************************************************************************)
(* objgen.rs: the on-disk object format.  Bytes are integers 0..255; a     *)
(* reader returns [ok, val, rest], rest being the unread bytes.            *)
(***************************************************************************)
\* the k low bytes of n, little-endian, two's complement (byteorder's
\* write_u8 .. write_i64 after an `as` cast to the width)
RECURSIVE LE(_, _)
LE(n, k) == IF k = 0 THEN <<>> ELSE <<n % 256>> \o LE(n \div 256, k - 1)

\* the unsigned value of little-endian bytes
RECURSIVE Unsigned(_)
Unsigned(bs) == IF bs = <<>> THEN 0 ELSE Head(bs) + 256 * Unsigned(Tail(bs))

\* the signed (two's complement) value of little-endian bytes
RECURSIVE Signed(_)
Signed(bs) ==
    IF Len(bs) = 1 THEN (IF bs[1] >= 128 THEN bs[1] - 256 ELSE bs[1])
    ELSE Head(bs) + 256 * Signed(Tail(bs))

ReadFail(binary) == [ok |-> FALSE, val |-> 0, rest |-> binary]
ReadOk(val, rest) == [ok |-> TRUE, val |-> val, rest |-> rest]

\* the k first bytes, and the rest; UnexpectedEof when fewer remain
ReadBytes(binary, k) ==
    IF Len(binary) < k THEN ReadFail(binary)
    ELSE ReadOk(SubSeq(binary, 1, k), SubSeq(binary, k + 1, Len(binary)))

\* a read result with its bytes turned into their unsigned / signed value
AsUnsigned(r) == IF r.ok THEN ReadOk(Unsigned(r.val), r.rest) ELSE r
AsSigned(r) == IF r.ok THEN ReadOk(Signed(r.val), r.rest) ELSE r

\* read_u8 / read_u16 / read_u64 and read_i8 / read_i16 / read_i32 / read_i64
ReadUnsigned(binary, k) == AsUnsigned(ReadBytes(binary, k))
ReadSigned(binary, k) == AsSigned(ReadBytes(binary, k))

\* a value put in front of the list a later read returned
Cons(v, rs) == IF rs.ok THEN ReadOk(<<v>> \o rs.val, rs.rest) ELSE rs

\* unsigned little-endian fields of the given widths, one after the other
RECURSIVE ReadFields(_, _)
ReadFieldsTail(r, widths) ==
    IF ~r.ok THEN r ELSE Cons(r.val, ReadFields(r.rest, widths))
ReadFields(binary, widths) ==
    IF widths = <<>> THEN ReadOk(<<>>, binary)
    ELSE ReadFieldsTail(ReadUnsigned(binary, Head(widths)), Tail(widths))

\* String::from_utf8 on one byte of a name
Chr(b) == CHOOSE c \in DOMAIN Ord : Ord[c] = b

\* the loop that reads a name up to its terminating 0
RECURSIVE ReadName(_)
ReadName(binary) ==
    IF Len(binary) < 1 THEN ReadFail(binary)
    ELSE IF Head(binary) = 0 THEN ReadOk(<<>>, Tail(binary))
    ELSE Cons(Chr(Head(binary)), ReadName(Tail(binary)))

\* a name's bytes and its terminating 0
WriteName(name) == bytes(name) \o <<0>>

\* Reference::write_bytes
ReferenceWrite(rf) == LE(rf.argument_pos, 1) \o WriteName(rf.rf)

\* Reference::from_bytes: argument_pos (u8), then the name
ReferenceReadName(argument_pos, name) ==
    IF ~name.ok THEN name ELSE ReadOk(Reference(argument_pos, name.val), name.rest)
ReferenceReadPos(pos) ==
    IF ~pos.ok THEN pos ELSE ReferenceReadName(pos.val, ReadName(pos.rest))
ReferenceRead(binary) == ReferenceReadPos(ReadUnsigned(binary, 1))

\* Constant::write_bytes: the value cast to the constant's width
ConstantWrite(cst) ==
    LE(cst.argument_pos, 1) \o LE(to_u8(cst.size), 1) \o LE(cst.value, to_u8(cst.size))

\* Constant::from_bytes: argument_pos (u8), size (u8), then the value read at
\* the constant's width and sign-extended
ConstantReadValue(argument_pos, size, v) ==
    IF ~v.ok THEN v ELSE ReadOk(Constant(argument_pos, size, v.val), v.rest)
ConstantReadSize(head) ==
    IF ~head.ok THEN head
    ELSE IF ~IsSome(from_u8(head.val[2])) THEN ReadFail(head.rest)
    ELSE ConstantReadValue(head.val[1], Unwrap(from_u8(head.val[2])),
                           ReadSigned(head.rest, head.val[2]))
ConstantRead(binary) == ConstantReadSize(ReadFields(binary, <<1, 1>>))

\* n references / constants in a row
RECURSIVE ReadReferences(_, _)
ReadReferencesTail(r, n) ==
    IF ~r.ok THEN r ELSE Cons(r.val, ReadReferences(r.rest, n))
ReadReferences(binary, n) ==
    IF n = 0 THEN ReadOk(<<>>, binary)
    ELSE ReadReferencesTail(ReferenceRead(binary), n - 1)

RECURSIVE ReadConstants(_, _)
ReadConstantsTail(r, n) ==
    IF ~r.ok THEN r ELSE Cons(r.val, ReadConstants(r.rest, n))
ReadConstants(binary, n) ==
    IF n = 0 THEN ReadOk(<<>>, binary)
    ELSE ReadConstantsTail(ConstantRead(binary), n - 1)

RECURSIVE Concat(_)
Concat(seqs) == IF seqs = <<>> THEN <<>> ELSE Head(seqs) \o Concat(Tail(seqs))

\* SameArgumentSpace without its comparison: the reader that would accept
\* every instruction
SameArgumentSpaceUnchecked(references, constants) == FALSE

\* the check of InstructionData::from_bytes: some reference and some
\* constant point at the same argument
SameArgumentSpace(references, constants) ==
    \E i \in 1..Len(references), j \in 1..Len(constants) :
        constants[j].argument_pos = references[i].argument_pos

\* InstructionData::write_bytes
InstructionWrite(instr) ==
    LE(instr.opcode, 2) \o LE(Len(instr.references), 1) \o LE(Len(instr.constants), 1)
    \o Concat([i \in 1..Len(instr.references) |-> ReferenceWrite(instr.references[i])])
    \o Concat([i \in 1..Len(instr.constants) |-> ConstantWrite(instr.constants[i])])

\* InstructionData::from_bytes: opcode (u16), ref_count (u8), const_count
\* (u8), the references, the constants, then the check
InstructionReadCheck(opcode, references, consts) ==
    IF ~consts.ok THEN consts
    ELSE IF SameArgumentSpace(references, consts.val) THEN ReadFail(consts.rest)
    ELSE ReadOk(InstructionData(opcode, references, consts.val), consts.rest)
InstructionReadConstants(opcode, const_count, refs) ==
    IF ~refs.ok THEN refs
    ELSE InstructionReadCheck(opcode, refs.val, ReadConstants(refs.rest, const_count))
InstructionReadReferences(head) ==
    IF ~head.ok THEN head
    ELSE InstructionReadConstants(head.val[1], head.val[3],
                                  ReadReferences(head.rest, head.val[2]))
InstructionRead(binary) == InstructionReadReferences(ReadFields(binary, <<2, 1, 1>>))

\* ObjectLabelSymbol::write_bytes
LabelWrite(label) == LE(label.ptr, 8) \o WriteName(label.name)

\* ObjectLabelSymbol::from_bytes: ptr (u64), then the name
LabelReadName(ptr, name) ==
    IF ~name.ok THEN name ELSE ReadOk(ObjectLabelSymbol(name.val, ptr), name.rest)
LabelReadPtr(ptr) ==
    IF ~ptr.ok THEN ptr ELSE LabelReadName(ptr.val, ReadName(ptr.rest))
LabelRead(binary) == LabelReadPtr(ReadUnsigned(binary, 8))

\* BinaryUnit::write_bytes (with BinaryConstant::write_binary and
\* BinaryReference::write_bytes); None for a unit without information
UnitWrite(unit) ==
    IF IsSome(unit.constant)
    THEN Some(<<0>> \o LE(to_u8(Unwrap(unit.constant).size), 1)
                    \o LE(Unwrap(unit.constant).value, 8))
    ELSE IF IsSome(unit.reference)
    THEN Some(<<1>> \o LE(to_u8(Unwrap(unit.reference).size), 1)
                    \o WriteName(Unwrap(unit.reference).rf))
    ELSE None

\* BinaryConstant::from_bytes: the value (i64); the size is checked after it
UnitReadConstant(size, v) ==
    IF ~v.ok THEN v
    ELSE IF ~IsSome(from_u8(size)) THEN ReadFail(v.rest)
    ELSE ReadOk(BinaryConstUnit(Unwrap(from_u8(size)), v.val), v.rest)

\* BinaryReference::from_bytes: the name, read after the size is checked
UnitReadReference(size, name) ==
    IF ~name.ok THEN name
    ELSE ReadOk(BinaryRefUnit(Unwrap(from_u8(size)), name.val), name.rest)

\* BinaryUnit::from_bytes: the unit type (u8), the size (u8), then the
\* constant or the reference
UnitReadBody(typ, sz) ==
    IF ~sz.ok THEN sz
    ELSE IF typ = 0 THEN UnitReadConstant(sz.val, ReadSigned(sz.rest, 8))
    ELSE IF ~IsSome(from_u8(sz.val)) THEN ReadFail(sz.rest)
    ELSE UnitReadReference(sz.val, ReadName(sz.rest))
UnitReadType(typ) ==
    IF ~typ.ok THEN typ
    ELSE IF typ.val \notin {0, 1} THEN ReadFail(typ.rest)
    ELSE UnitReadBody(typ.val, ReadUnsigned(typ.rest, 1))
UnitRead(binary) == UnitReadType(ReadUnsigned(binary, 1))

\* the iteration orders a HashMap with key set S may have
Orders(S) == {o \in [1..Cardinality(S) -> S] : \A i, j \in DOMAIN o : o[i] = o[j] => i = j}

\* the units of a section, written one after the other; None when one fails
UnitsWrite(units) ==
    IF \E i \in 1..Len(units) : ~IsSome(UnitWrite(units[i])) THEN None
    ELSE Some(Concat([i \in 1..Len(units) |-> Unwrap(UnitWrite(units[i]))]))

\* SectionData::write_bytes, the labels written in the order label_order;
\* None is the error
SectionWrite(sec, label_order) ==
    IF Len(sec.binary_data) # 0 /\ Len(sec.instructions) # 0 THEN None
    ELSE IF ~IsSome(UnitsWrite(sec.binary_data)) THEN None
    ELSE Some(LE(Len(sec.instructions), 8) \o LE(Cardinality(DOMAIN sec.labels), 8)
              \o LE(Len(sec.binary_data), 8) \o WriteName(sec.name)
              \o Concat([i \in 1..Len(label_order) |-> LabelWrite(sec.labels[label_order[i]])])
              \o Concat([i \in 1..Len(sec.instructions) |-> InstructionWrite(sec.instructions[i])])
              \o Unwrap(UnitsWrite(sec.binary_data)))

\* the label loop of SectionData::from_bytes: a repeated name is an error
RECURSIVE ReadLabels(_, _, _)
ReadLabelsTail(r, n, labels) ==
    IF ~r.ok THEN r
    ELSE IF r.val.name \in DOMAIN labels THEN ReadFail(r.rest)
    ELSE ReadLabels(r.rest, n, Insert(labels, r.val.name, r.val))
ReadLabels(binary, n, labels) ==
    IF n = 0 THEN ReadOk(labels, binary)
    ELSE ReadLabelsTail(LabelRead(binary), n - 1, labels)

\* the instruction loop and the binary-unit loop of SectionData::from_bytes
RECURSIVE ReadInstructions(_, _)
ReadInstructionsTail(r, n) ==
    IF ~r.ok THEN r ELSE Cons(r.val, ReadInstructions(r.rest, n))
ReadInstructions(binary, n) ==
    IF n = 0 THEN ReadOk(<<>>, binary)
    ELSE ReadInstructionsTail(InstructionRead(binary), n - 1)

RECURSIVE ReadUnits(_, _)
ReadUnitsTail(r, n) ==
    IF ~r.ok THEN r ELSE Cons(r.val, ReadUnits(r.rest, n))
ReadUnits(binary, n) ==
    IF n = 0 THEN ReadOk(<<>>, binary)
    ELSE ReadUnitsTail(UnitRead(binary), n - 1)

\* SectionData::from_bytes: instruction_count, label_count, binary_count
\* (u64 each), the name, the labels, the instructions, the binary units, and
\* the mode flag
SectionReadFlag(name, labels, instructions, units) ==
    IF ~units.ok THEN units
    ELSE ReadOk([name |-> name, instructions |-> instructions, labels |-> labels,
                 binary_data |-> units.val, binary_section |-> Len(units.val) # 0],
                units.rest)
SectionReadUnits(name, labels, binary_count, instrs) ==
    IF ~instrs.ok THEN instrs
    ELSE SectionReadFlag(name, labels, instrs.val, ReadUnits(instrs.rest, binary_count))
SectionReadInstructions(name, instruction_count, binary_count, labels) ==
    IF ~labels.ok THEN labels
    ELSE SectionReadUnits(name, labels.val, binary_count,
                          ReadInstructions(labels.rest, instruction_count))
SectionReadLabels(instruction_count, label_count, binary_count, name) ==
    IF ~name.ok THEN name
    ELSE SectionReadInstructions(name.val, instruction_count, binary_count,
                                 ReadLabels(name.rest, label_count, EmptyMap))
SectionReadName(head) ==
    IF ~head.ok THEN head
    ELSE SectionReadLabels(head.val[1], head.val[2], head.val[3], ReadName(head.rest))
SectionRead(binary) == SectionReadName(ReadFields(binary, <<8, 8, 8>>))

\* the magic number 0x3A6863FC6173371B as its eight little-endian bytes
MAGIC_FORMAT_NUMBER == <<27, 55, 115, 97, 252, 99, 104, 58>>

\* the object format version
CURRENT_FORMAT_VERSION == 4

\* ObjectFormatHeader::write_bytes
HeaderWrite(length) == MAGIC_FORMAT_NUMBER \o LE(length, 8) \o LE(CURRENT_FORMAT_VERSION, 4)

\* ObjectFormatHeader::from_bytes: the magic number, sections_length (u64),
\* the version (u32, not compared); the result is sections_length
HeaderReadLength(fields) ==
    IF ~fields.ok THEN fields ELSE ReadOk(fields.val[1], fields.rest)
HeaderReadMagic(magic) ==
    IF ~magic.ok THEN magic
    ELSE IF magic.val # MAGIC_FORMAT_NUMBER THEN ReadFail(magic.rest)
    ELSE HeaderReadLength(ReadFields(magic.rest, <<8, 4>>))
HeaderRead(binary) == HeaderReadMagic(ReadBytes(binary, 8))

\* ObjectFormat::generate_binary of the object (length, secs), the sections
\* iterated in section_order and each section's labels in label_orders[name]
generate_object(length, secs, section_order, label_orders) ==
    IF \E n \in DOMAIN secs : ~IsSome(SectionWrite(secs[n], label_orders[n])) THEN None
    ELSE Some(HeaderWrite(length)
              \o Concat([i \in 1..Len(section_order) |->
                   Unwrap(SectionWrite(secs[section_order[i]], label_orders[section_order[i]]))]))

\* ObjectFormat::new: the sections of a fresh object
NewSections == Insert(EmptyMap, DEFAULT_SECTION_NAME, NewSection)

\* the section loop of ObjectFormat::from_bytes
RECURSIVE ReadSections(_, _, _)
ReadSectionsTail(r, n, secs) ==
    IF ~r.ok THEN r ELSE ReadSections(r.rest, n, Insert(secs, r.val.name, r.val))
ReadSections(binary, n, secs) ==
    IF n = 0 THEN ReadOk(secs, binary)
    ELSE ReadSectionsTail(SectionRead(binary), n - 1, secs)

\* ObjectFormat::from_bytes: [ok, sections_length, sections]
FromBytesSections(length, secs) ==
    IF ~secs.ok
    THEN [ok |-> FALSE, sections_length |-> length, sections |-> NewSections]
    ELSE [ok |-> TRUE, sections_length |-> length, sections |-> secs.val]
FromBytesHeader(header) ==
    IF ~header.ok THEN [ok |-> FALSE, sections_length |-> 0, sections |-> NewSections]
    ELSE FromBytesSections(header.val, ReadSections(header.rest, header.val, NewSections))
from_bytes(binary) == FromBytesHeader(HeaderRead(binary))

(***************************************************************************)
(* linker.rs: the linker.  A result carries a status: "ok", "err" (an Err  *)
(* return) or "abort" (a panic).                                           *)
(***************************************************************************)
\* macro calculate_alignment
calculate_alignment(num, alignment) ==
    IF num > (num \div alignment) * alignment
    THEN (num \div alignment) * alignment + alignment
    ELSE (num \div alignment) * alignment

\* struct LinkStructureSection
LinkStructureSection(name, alignment) == [name |-> name, alignment |-> alignment]

\* LinkStructure::new: text, data, rodata, each aligned to 0x100
DefaultLinkStructure ==
    <<LinkStructureSection(<<"t", "e", "x", "t">>, 256),
      LinkStructureSection(<<"d", "a", "t", "a">>, 256),
      LinkStructureSection(<<"r", "o", "d", "a", "t", "a">>, 256)>>

\* LinkStructure::get_section_index: the 0-based index of the first link
\* section of this name
RECURSIVE IndexFrom(_, _, _)
IndexFrom(link_sections, name, idx) ==
    IF idx >= Len(link_sections) THEN None
    ELSE IF link_sections[idx + 1].name = name THEN Some(idx)
    ELSE IndexFrom(link_sections, name, idx + 1)

get_section_index(link_sections, name) == IndexFrom(link_sections, name, 0)

\* the label loop of SectionData::append_other, the labels of other taken in
\* the order given: each ptr moved by the old length; a label self has
\* already is the error
RECURSIVE MergeLabels(_, _, _, _)
MergeLabels(labels, other_labels, order, old_length) ==
    IF order = <<>> THEN [ok |-> TRUE, labels |-> labels]
    ELSE IF Head(order) \in DOMAIN labels THEN [ok |-> FALSE, labels |-> labels]
    ELSE MergeLabels(Insert(labels, Head(order),
                            ObjectLabelSymbol(other_labels[Head(order)].name,
                                              other_labels[Head(order)].ptr + old_length)),
                     other_labels, Tail(order), old_length)

WithLabels(sec, r) == [ok |-> r.ok, sec |-> [sec EXCEPT !.labels = r.labels]]

\* append_other with the incoming instructions put before those of self
append_other_prepending(self, other, label_order) ==
    IF self.binary_section # other.binary_section THEN [ok |-> FALSE, sec |-> self]
    ELSE IF self.binary_section
    THEN WithLabels([self EXCEPT !.binary_data = @ \o other.binary_data],
                    MergeLabels(self.labels, other.labels, label_order,
                                Len(self.binary_data)))
    ELSE WithLabels([self EXCEPT !.instructions = other.instructions \o @],
                    MergeLabels(self.labels, other.labels, label_order,
                                Len(self.instructions)))

\* append_other with the labels of a binary section moved by the instructions
\* of self
append_other_by_instructions(self, other, label_order) ==
    IF self.binary_section # other.binary_section THEN [ok |-> FALSE, sec |-> self]
    ELSE IF self.binary_section
    THEN WithLabels([self EXCEPT !.binary_data = @ \o other.binary_data],
                    MergeLabels(self.labels, other.labels, label_order,
                                Len(self.instructions)))
    ELSE WithLabels([self EXCEPT !.instructions = @ \o other.instructions],
                    MergeLabels(self.labels, other.labels, label_order,
                                Len(self.instructions)))

\* SectionData::append_other
append_other(self, other, label_order) ==
    IF self.binary_section # other.binary_section THEN [ok |-> FALSE, sec |-> self]
    ELSE IF self.binary_section
    THEN WithLabels([self EXCEPT !.binary_data = @ \o other.binary_data],
                    MergeLabels(self.labels, other.labels, label_order,
                                Len(self.binary_data)))
    ELSE WithLabels([self EXCEPT !.instructions = @ \o other.instructions],
                    MergeLabels(self.labels, other.labels, label_order,
                                Len(self.instructions)))

\* Linker::load_symbols, the sections of the object taken in the order given
RECURSIVE load_symbols(_, _, _, _)
LoadSymbolsTail(r, symbols, object_sections, order, label_orders) ==
    IF r.ok
    THEN load_symbols(Insert(symbols, Head(order), r.sec), object_sections, Tail(order),
                      label_orders)
    ELSE [ok |-> FALSE, symbols |-> Insert(symbols, Head(order), r.sec)]

load_symbols(symbols, object_sections, order, label_orders) ==
    IF order = <<>> THEN [ok |-> TRUE, symbols |-> symbols]
    ELSE IF Head(order) \in DOMAIN symbols
    THEN LoadSymbolsTail(append_other(symbols[Head(order)], object_sections[Head(order)],
                                      label_orders[Head(order)]),
                         symbols, object_sections, order, label_orders)
    ELSE load_symbols(Insert(symbols, Head(order), object_sections[Head(order)]),
                      object_sections, Tail(order), label_orders)

\* the sums of SectionData::get_binary_size and get_binary_position
RECURSIVE SumUnitSizes(_)
SumUnitSizes(units) ==
    IF units = <<>> THEN 0 ELSE Unwrap(UnitSize(Head(units))) + SumUnitSizes(Tail(units))

RECURSIVE SumInstructionSizes(_)
SumInstructionSizes(instrs) ==
    IF instrs = <<>> THEN 0
    ELSE InstructionSize(Unwrap(get_instruction(Head(instrs).opcode)))
         + SumInstructionSizes(Tail(instrs))

\* SectionData::get_binary_size
get_binary_size(sec) ==
    IF sec.binary_section THEN SumUnitSizes(sec.binary_data)
    ELSE SumInstructionSizes(sec.instructions)

\* the entries a loop with `if i == index { break }` goes through
Before(s, index) == SubSeq(s, 1, IF index < Len(s) THEN index ELSE Len(s))

\* SectionData::get_binary_position
get_binary_position(sec, index) ==
    IF sec.binary_section THEN SumUnitSizes(Before(sec.binary_data, index))
    ELSE SumInstructionSizes(Before(sec.instructions, index))

\* SectionData::get_label_binary_offset
get_label_binary_offset(sec, label_name) ==
    IF label_name \notin DOMAIN sec.labels THEN None
    ELSE IF sec.binary_section THEN Some(sec.labels[label_name].ptr)
    ELSE Some(get_binary_position(sec, sec.labels[label_name].ptr))

\* Linker::find_section_with_label: the first section, in the iteration
\* order of section_symbols, that has the label
RECURSIVE find_section_with_label(_, _, _)
find_section_with_label(symbols, order, label) ==
    IF order = <<>> THEN None
    ELSE IF label \in DOMAIN symbols[Head(order)].labels THEN Some(Head(order))
    ELSE find_section_with_label(symbols, Tail(order), label)

\* the text of an Err: the message and the name that format! puts in it
ErrorMessage(message, name) == [message |-> message, name |-> name]

Result(st, val) == [status |-> st, val |-> val, error |-> None]
AddTo(r, n) == IF r.status = "ok" THEN Result("ok", r.val + n) ELSE r

\* the loop of get_section_offset: the sizes of the link sections before the
\* one at idx; indexing section_symbols with a name it lacks panics
RECURSIVE SizesBefore(_, _, _)
SizesBefore(link_sections, symbols, idx) ==
    IF idx = 0 THEN Result("ok", 0)
    ELSE IF link_sections[idx].name \notin DOMAIN symbols
    THEN Result("abort", 0)
    ELSE AddTo(SizesBefore(link_sections, symbols, idx - 1),
               get_binary_size(symbols[link_sections[idx].name]))

AlignResult(r, alignment) ==
    IF r.status = "ok" THEN Result("ok", calculate_alignment(r.val, alignment)) ELSE r

SectionOffsetAt(link_sections, symbols, section_name, idx) ==
    IF idx = None
    THEN [status |-> "err", val |-> 0,
          error |-> Some(ErrorMessage("Linker script doesn't define section", section_name))]
    ELSE AlignResult(SizesBefore(link_sections, symbols, Unwrap(idx)),
                     link_sections[Unwrap(idx) + 1].alignment)

\* Linker::get_section_offset
get_section_offset(link_sections, symbols, section_name) ==
    SectionOffsetAt(link_sections, symbols, section_name,
                    get_section_index(link_sections, section_name))

\* struct ResolvedReference
ResolvedReference(size, value) == [size |-> size, value |-> value]

\* the reference loop of write_instruction_binary: argument position ->
\* ResolvedReference, the value being section offset + offset of the label in
\* its section
RECURSIVE ResolveReferences(_, _, _, _, _, _)
RECURSIVE ResolveInSection(_, _, _, _, _, _, _)
RECURSIVE ResolveAtOffset(_, _, _, _, _, _, _, _)
ResolveAtOffset(link_sections, symbols, order, instr_symbol, references, resolved, section_local_offset, section_offset) ==
    IF section_offset.status # "ok"
    THEN [status |-> section_offset.status, resolved |-> resolved,
          error |-> section_offset.error]
    ELSE ResolveReferences(link_sections, symbols, order, instr_symbol, Tail(references),
             Insert(resolved, Head(references).argument_pos,
                    ResolvedReference(
                        Unwrap(from_u8(ArgSize(
                            instr_symbol.args[Head(references).argument_pos + 1]))),
                        section_offset.val + section_local_offset)))

ResolveInSection(link_sections, symbols, order, instr_symbol, references, resolved, sec_name) ==
    IF sec_name = None
    THEN [status |-> "err", resolved |-> resolved,
          error |-> Some(ErrorMessage("Failed to resolve reference", Head(references).rf))]
    ELSE ResolveAtOffset(link_sections, symbols, order, instr_symbol, references, resolved,
             Unwrap(get_label_binary_offset(symbols[Unwrap(sec_name)],
                                            Head(references).rf)),
             get_section_offset(link_sections, symbols, Unwrap(sec_name)))

ResolveReferences(link_sections, symbols, order, instr_symbol, references, resolved) ==
    IF references = <<>> THEN [status |-> "ok", resolved |-> resolved, error |-> None]
    ELSE ResolveInSection(link_sections, symbols, order, instr_symbol, references, resolved,
             find_section_with_label(symbols, order, Head(references).rf))

\* the constant loop of write_instruction_binary
RECURSIVE InsertConstants(_, _)
InsertConstants(constants, resolved) ==
    IF constants = <<>> THEN resolved
    ELSE InsertConstants(Tail(constants),
             Insert(resolved, Head(constants).argument_pos,
                    ResolvedReference(Head(constants).size, Head(constants).value)))

WithConstants(r, constants) ==
    IF r.status = "ok" THEN [r EXCEPT !.resolved = InsertConstants(constants, @)] ELSE r

\* the opcode of write_instruction_binary: two bytes when extended
OpcodeBytes(instr_symbol) ==
    IF extended_opcode(instr_symbol) THEN LE(instr_symbol.opcode, 2)
    ELSE LE(instr_symbol.opcode, 1)

\* the argument at pos of write_instruction_binary, written when resolved:
\* a RelPointer argument has start_position subtracted first
WriteArgument(bin, resolved, instr_symbol, pos, start_position) ==
    IF pos \notin DOMAIN resolved THEN bin
    ELSE bin \o LE(IF instr_symbol.args[pos + 1] = "RelPointer"
                   THEN resolved[pos].value - start_position
                   ELSE resolved[pos].value,
                   to_u8(resolved[pos].size))

WriteResolved(binary, instr_symbol, r) ==
    IF r.status # "ok" THEN [status |-> r.status, binary |-> binary, error |-> r.error]
    ELSE [status |-> "ok", error |-> None,
          binary |-> binary \o WriteArgument(
                                   WriteArgument(OpcodeBytes(instr_symbol), r.resolved,
                                                 instr_symbol, 0, Len(binary)),
                                   r.resolved, instr_symbol, 1, Len(binary))]

\* Linker::write_instruction_binary
write_instruction_binary(link_sections, symbols, order, binary, instruction) ==
    WriteResolved(binary, Unwrap(get_instruction(instruction.opcode)),
        WithConstants(
            ResolveReferences(link_sections, symbols, order,
                              Unwrap(get_instruction(instruction.opcode)),
                              instruction.references, EmptyMap),
            instruction.constants))

RECURSIVE WriteInstructions(_, _, _, _, _)
WriteInstructions(link_sections, symbols, order, r, instructions) ==
    IF instructions = <<>> \/ r.status # "ok" THEN r
    ELSE WriteInstructions(link_sections, symbols, order,
             write_instruction_binary(link_sections, symbols, order, r.binary,
                                      Head(instructions)),
             Tail(instructions))

\* Linker::section_binary: a binary section appends its units as they are,
\* one element each
section_binary(link_sections, symbols, order, binary, section) ==
    IF section.binary_section
    THEN [status |-> "ok", binary |-> binary \o section.binary_data, error |-> None]
    ELSE WriteInstructions(link_sections, symbols, order,
                           [status |-> "ok", binary |-> binary, error |-> None],
                           section.instructions)

\* the first loop of generate_binary: the binary of each section of
\* section_symbols, in iteration order
RECURSIVE SectionBinaries(_, _, _, _, _)
SectionBinariesTail(link_sections, symbols, order, rest, binaries, r) ==
    IF r.status # "ok" THEN [status |-> r.status, binaries |-> binaries, error |-> r.error]
    ELSE SectionBinaries(link_sections, symbols, order, Tail(rest),
                         Insert(binaries, Head(rest), r.binary))

SectionBinaries(link_sections, symbols, order, rest, binaries) ==
    IF rest = <<>> THEN [status |-> "ok", binaries |-> binaries, error |-> None]
    ELSE SectionBinariesTail(link_sections, symbols, order, rest, binaries,
             section_binary(link_sections, symbols, order, <<>>, symbols[Head(rest)]))

Zeros(n) == [i \in 1..n |-> 0]

\* Vec::append of the section's binary, which empties that binary
AppendSection(s, name) ==
    [s EXCEPT !.binary = @ \o s.binaries[name],
              !.binaries = Insert(@, name, <<>>),
              !.starts = Append(@, Len(s.binary))]

\* the padding after a section of generate_binary
PadSection(s, offset, size, alignment) ==
    IF offset.status # "ok" THEN [s EXCEPT !.status = offset.status, !.error = offset.error]
    ELSE [s EXCEPT !.binary =
              @ \o Zeros(calculate_alignment(offset.val + size, alignment)
                          - (offset.val + size))]

\* the second loop of generate_binary, from the link section at idx on
RECURSIVE LinkSections(_, _, _, _)
LinkSections(link_sections, symbols, idx, s) ==
    IF idx = Len(link_sections) \/ s.status # "ok" THEN s
    ELSE IF link_sections[idx + 1].name \notin DOMAIN s.binaries
    THEN [s EXCEPT !.status = "err",
                   !.error = Some(ErrorMessage("Undefined reference to section",
                                               link_sections[idx + 1].name))]
    ELSE LinkSections(link_sections, symbols, idx + 1,
             PadSection(AppendSection(s, link_sections[idx + 1].name),
                        get_section_offset(link_sections, symbols,
                                           link_sections[idx + 1].name),
                        get_binary_size(symbols[link_sections[idx + 1].name]),
                        link_sections[idx + 1].alignment))

\* Linker::generate_binary after the link structure is set, with the
\* binaries left from before
LinkAll(link_sections, symbols, r) ==
    LinkSections(link_sections, symbols, 0,
                 [status |-> r.status, binary |-> <<>>, binaries |-> r.binaries,
                  starts |-> <<>>, error |-> r.error])

generate_binary(link_sections, symbols, order, binaries) ==
    LinkAll(link_sections, symbols,
            SectionBinaries(link_sections, symbols, order, order, binaries))

(***************************************************************************)
(* The preprocessor: tokens are records of kind and slice; the file system *)
(* maps a path to the tokens of the file's text.                           *)
(***************************************************************************)
\* struct LexerToken (line and column are left out)
LexerToken(kind, slice) == [kind |-> kind, slice |-> slice]

\* struct Macro
Macro(args, token_list) == [args |-> args, token_list |-> token_list]

\* the position of the macro argument named by an Escaped token, 0 for none
ArgumentIndex(names, slice) ==
    IF \E i \in 1..Len(names) : names[i] = slice
    THEN CHOOSE i \in 1..Len(names) :
             names[i] = slice /\ \A j \in 1..(i - 1) : names[j] # slice
    ELSE 0

\* the loop of Macro::expand
RECURSIVE ExpandTokens(_, _, _, _)
ExpandTokens(names, args, token_list, tokens) ==
    IF token_list = <<>> THEN [ok |-> TRUE, tokens |-> tokens]
    ELSE IF Head(token_list).kind # "Escaped"
    THEN ExpandTokens(names, args, Tail(token_list), Append(tokens, Head(token_list)))
    ELSE IF ArgumentIndex(names, Head(token_list).slice) = 0
    THEN [ok |-> FALSE, tokens |-> tokens]
    ELSE ExpandTokens(names, args, Tail(token_list),
             Append(tokens, args[ArgumentIndex(names, Head(token_list).slice)]))

\* Macro::expand
expand(self, args) ==
    IF Len(args) # Len(self.args) THEN [ok |-> FALSE, tokens |-> <<>>]
    ELSE ExpandTokens(self.args, args, self.token_list, <<>>)

\* Preprocessor::collect_arguments: the arguments of a macro call, one token
\* each, up to the RParen
RECURSIVE CallArguments(_, _)
CallArguments(token_iter, args) ==
    IF Len(token_iter) < 2 THEN [ok |-> FALSE, args |-> args, rest |-> <<>>]
    ELSE IF token_iter[2].kind = "Comma"
    THEN CallArguments(Tail(Tail(token_iter)), Append(args, token_iter[1]))
    ELSE IF token_iter[2].kind = "RParen"
    THEN [ok |-> TRUE, args |-> Append(args, token_iter[1]), rest |-> Tail(Tail(token_iter))]
    ELSE [ok |-> FALSE, args |-> args, rest |-> <<>>]

\* a preprocessor that failed
Failed(pp) == [pp EXCEPT !.status = "err"]

\* the end of call_macro: the expansion is appended to the new tokens
AppendExpansion(pp, rest, e) ==
    IF ~e.ok THEN Failed(pp)
    ELSE [pp EXCEPT !.token_iter = rest, !.new = @ \o e.tokens]

CallWithArguments(pp, macro_def, a) ==
    IF ~a.ok THEN Failed(pp) ELSE AppendExpansion(pp, a.rest, expand(macro_def, a.args))

\* Preprocessor::call_macro: the token after the name is taken; when it is
\* not an LParen the call has no arguments
call_macro(pp, macro_name) ==
    IF pp.token_iter = <<>> THEN Failed(pp)
    ELSE IF Head(pp.token_iter).kind = "LParen"
    THEN CallWithArguments(pp, pp.macro_list[macro_name],
                           CallArguments(Tail(pp.token_iter), <<>>))
    ELSE AppendExpansion(pp, Tail(pp.token_iter), expand(pp.macro_list[macro_name], <<>>))

\* instructions::collect_arguments: the parameter names of a macro
\* definition, up to the RParen
RECURSIVE DefinitionArguments(_, _)
DefinitionArguments(token_iter, args) ==
    IF Len(token_iter) < 2 \/ Head(token_iter).kind # "Identifier"
    THEN [ok |-> FALSE, args |-> args, rest |-> <<>>]
    ELSE IF token_iter[2].kind = "Comma"
    THEN DefinitionArguments(Tail(Tail(token_iter)), Append(args, token_iter[1].slice))
    ELSE IF token_iter[2].kind = "RParen"
    THEN [ok |-> TRUE, args |-> Append(args, token_iter[1].slice),
          rest |-> Tail(Tail(token_iter))]
    ELSE [ok |-> FALSE, args |-> args, rest |-> <<>>]

\* instructions::collect_macro_tokens: the tokens up to the matching RBracket
RECURSIVE collect_macro_tokens(_, _, _)
collect_macro_tokens(token_iter, unmatched_brackets, tokens) ==
    IF token_iter = <<>> THEN [tokens |-> tokens, rest |-> <<>>]
    ELSE IF Head(token_iter).kind = "RBracket" /\ unmatched_brackets = 1
    THEN [tokens |-> tokens, rest |-> Tail(token_iter)]
    ELSE collect_macro_tokens(Tail(token_iter),
             CASE Head(token_iter).kind = "RBracket" -> unmatched_brackets - 1
               [] Head(token_iter).kind = "LBracket" -> unmatched_brackets + 1
               [] OTHER -> unmatched_brackets,
             Append(tokens, Head(token_iter)))

\* the end of macro_definition: the body without comments is registered under
\* the name, whatever the macro list held for it
InsertMacro(pp, macro_name, args, body) ==
    [pp EXCEPT !.token_iter = body.rest,
               !.macro_list = Insert(@, macro_name,
                   Macro(args, SelectSeq(body.tokens, LAMBDA t : t.kind # "Comment")))]

\* macro_definition from the token that must be the LBracket
MacroBody(pp, macro_name, args, token_iter) ==
    IF token_iter = <<>> \/ Head(token_iter).kind # "LBracket" THEN Failed(pp)
    ELSE InsertMacro(pp, macro_name, args, collect_macro_tokens(Tail(token_iter), 1, <<>>))

MacroWithArguments(pp, macro_name, a) ==
    IF ~a.ok THEN Failed(pp) ELSE MacroBody(pp, macro_name, a.args, a.rest)

\* instructions::macro_definition
macro_definition(pp) ==
    IF Len(pp.token_iter) < 2 \/ Head(pp.token_iter).kind # "Identifier" THEN Failed(pp)
    ELSE IF pp.token_iter[2].kind = "LParen"
    THEN MacroWithArguments(pp, Head(pp.token_iter).slice,
                            DefinitionArguments(Tail(Tail(pp.token_iter)), <<>>))
    ELSE MacroBody(pp, Head(pp.token_iter).slice, <<>>, Tail(pp.token_iter))

\* the files on disk: path -> the tokens of the file's text
fA == <<"f">>
fB == <<"g">>
fC == <<"h">>
Quoted(path) == <<"\"">> \o path \o <<"\"">>

nop == LexerToken("Identifier", <<"n", "o", "p">>)
Newline == LexerToken("Newline", <<"\n">>)
IncludeOf(path) == <<LexerToken("PreprocessInstruction", <<"%", "i", "n", "c", "l", "u", "d", "e">>),
                     LexerToken("String", Quoted(path)), Newline>>

Files ==
    FromPairs(<<<<fA, <<nop, Newline>>>>,
                <<fB, IncludeOf(fA) \o IncludeOf(fA)>>>>)

RECURSIVE preprocess(_)

\* the end of include: the tokens of the file between EnterInclude and
\* ExitInclude
AppendIncluded(pp, filename, inner) ==
    IF inner.status # "ok"
    THEN [pp EXCEPT !.status = "err", !.included = inner.included, !.reads = inner.reads]
    ELSE [pp EXCEPT !.token_iter = Tail(@),
                    !.new = @ \o <<LexerToken("EnterInclude", filename)>> \o inner.new
                              \o <<LexerToken("ExitInclude", filename)>>,
                    !.included = inner.included,
                    !.reads = inner.reads]

\* include from fs::File::open on: the file is read, its text is put in the
\* map of included files and a new Preprocessor runs on its tokens
IncludeFile(pp, filename) ==
    IF filename \notin DOMAIN Files THEN Failed(pp)
    ELSE AppendIncluded(pp, filename,
             preprocess([token_iter |-> Files[filename], new |-> <<>>,
                         macro_list |-> EmptyMap,
                         included |-> Insert(pp.included, filename, Files[filename]),
                         reads |-> [pp.reads EXCEPT ![filename] = @ + 1],
                         status |-> "run"]))

\* instructions::include
include(pp) ==
    IF pp.token_iter = <<>> \/ Head(pp.token_iter).kind # "String" THEN Failed(pp)
    ELSE IncludeFile(pp, SubSeq(Head(pp.token_iter).slice, 2,
                                Len(Head(pp.token_iter).slice) - 1))

\* Preprocessor::run_instruction
run_instruction(pp, instruction_name) ==
    CASE instruction_name = <<"m", "a", "c", "r", "o">> -> macro_definition(pp)
      [] instruction_name = <<"i", "n", "c", "l", "u", "d", "e">> -> include(pp)
      [] OTHER -> Failed(pp)

\* one turn of the loop of Preprocessor::preprocess, the token taken off the
\* iterator
PreprocessToken(pp, token) ==
    CASE token.kind = "PreprocessInstruction" -> run_instruction(pp, Tail(token.slice))
      [] token.kind = "Identifier" ->
           IF token.slice \notin DOMAIN pp.macro_list
           THEN [pp EXCEPT !.new = Append(@, token)]
           ELSE call_macro(pp, token.slice)
      [] token.kind = "Comment" -> pp
      [] OTHER -> [pp EXCEPT !.new = Append(@, token)]

\* Preprocessor::preprocess
preprocess(pp) ==
    IF pp.status # "run" THEN pp
    ELSE IF pp.token_iter = <<>> THEN [pp EXCEPT !.status = "ok"]
    ELSE preprocess(PreprocessToken([pp EXCEPT !.token_iter = Tail(@)],
                                    Head(pp.token_iter)))

\* the other parts of the program are not run
FrontIdle ==
    /\ pp_iter = <<>> /\ pp_new = <<>> /\ macro_list = EmptyMap /\ included = EmptyMap
    /\ reads = [p \in DOMAIN Files |-> 0]
    /\ pp_status = "idle" /\ parse_pos = 0 /\ parse_prev = None /\ root = <<>>
    /\ parse_status = "idle"


(***************************************************************************)
(* The lexer: tokenize_internal over the logos lexer of enum Token.        *)
(***************************************************************************)
\* struct LexerToken with its position
LexerTokenAt(kind, slice, line, column) ==
    [kind |-> kind, slice |-> slice, line |-> line, column |-> column]

\* the lexer of a source: the bytes consumed, extras, the escaping flag of
\* tokenize_internal, the tokens pushed, and for each of them lex.span().start
\* at the push
NewLexer(code) ==
    [code |-> code, at |-> 0, extras |-> <<0, 0>>, escaping |-> FALSE, tokens |-> <<>>,
     starts |-> <<>>, status |-> "run"]

IdleLexer == [NewLexer(<<>>) EXCEPT !.status = "idle"]

\* #[logos(skip r"[ \t\f\r]+")]
RECURSIVE SkipFrom(_, _)
SkipFrom(code, at) ==
    IF at < Len(code) /\ code[at + 1] \in {" ", "\t", "\r"} THEN SkipFrom(code, at + 1)
    ELSE at

\* the end of the longest run of characters of cs from at on
RECURSIVE RunEnd(_, _, _)
RunEnd(code, at, cs) ==
    IF at < Len(code) /\ code[at + 1] \in cs THEN RunEnd(code, at + 1, cs) ELSE at

\* the end of [;#].* : the comment stops before the line feed
RECURSIVE CommentEnd(_, _)
CommentEnd(code, at) ==
    IF at < Len(code) /\ code[at + 1] # "\n" THEN CommentEnd(code, at + 1) ELSE at

IdentifierChars == {"a", "b", "@", "_"}

\* the variant of Token that matches at the byte at, with its span
TokenMatch(code, at) ==
    CASE code[at + 1] \in IdentifierChars ->
            [kind |-> "Identifier", start |-> at, end |-> RunEnd(code, at, IdentifierChars)]
      [] code[at + 1] = "\n" -> [kind |-> "Newline", start |-> at, end |-> at + 1]
      [] code[at + 1] \in {";", "#"} ->
            [kind |-> "Comment", start |-> at, end |-> CommentEnd(code, at)]
      [] code[at + 1] = "," -> [kind |-> "Comma", start |-> at, end |-> at + 1]
      [] code[at + 1] = "\\" -> [kind |-> "EscapeChar", start |-> at, end |-> at + 1]
      [] OTHER -> [kind |-> "Error", start |-> at, end |-> at + 1]

\* newline_callback, which Newline and Comment call; the other variants call
\* character_callback, which leaves extras alone and whose result, the
\* payload of the variant, tokenize_internal drops
newline_callback(extras, span) ==
    IF span.kind \in {"Newline", "Comment"} THEN <<extras[1] + 1, span.end>> ELSE extras

PushToken(lex, kind, span) ==
    [lex EXCEPT !.tokens = Append(@, LexerTokenAt(kind, SubSeq(lex.code, span.start + 1, span.end),
                                                  lex.extras[1], lex.extras[2])),
                !.starts = Append(@, span.start),
                !.escaping = FALSE]

\* the body of the while loop of tokenize_internal for the token matched
TokenizeMatched(lex, span) ==
    IF span.kind = "Error" THEN [lex EXCEPT !.status = "err"]
    ELSE IF lex.escaping THEN PushToken(lex, "Escaped", span)
    ELSE IF span.kind = "EscapeChar" THEN [lex EXCEPT !.escaping = TRUE]
    ELSE PushToken(lex, span.kind, span)

\* lex.next() has matched span: the callback has run and the lexer is behind
\* the span
Advance(lex, span) ==
    TokenizeMatched([lex EXCEPT !.at = span.end,
                                !.extras = IF span.kind = "Error" THEN @
                                           ELSE newline_callback(@, span)],
                    span)

\* one turn of the while loop of tokenize_internal, or its end
LexAt(lex, at) ==
    IF at = Len(lex.code) THEN [lex EXCEPT !.at = at, !.status = "ok"]
    ELSE Advance(lex, TokenMatch(lex.code, at))

tokenize_internal(lex) == LexAt(lex, SkipFrom(lex.code, lex.at))

(***************************************************************************)
(* The parser: parse_top_level takes a token and the iterator behind it.   *)
(***************************************************************************)
\* char::to_digit for the radix, None for a character that is no digit
to_digit(c, radix) ==
    IF c \notin DOMAIN Ord THEN None
    ELSE IF Ord[c] >= 48 /\ Ord[c] <= 57 /\ Ord[c] - 48 < radix THEN Some(Ord[c] - 48)
    ELSE IF Ord[c] >= 97 /\ Ord[c] <= 122 /\ Ord[c] - 87 < radix THEN Some(Ord[c] - 87)
    ELSE IF Ord[c] >= 65 /\ Ord[c] <= 90 /\ Ord[c] - 55 < radix THEN Some(Ord[c] - 55)
    ELSE None

\* i64::from_str_radix on unsigned text: None for an empty text or a
\* character that is no digit (the texts of the model stay below i64::MAX)
RECURSIVE FromDigits(_, _, _)
FromDigits(numtxt, radix, acc) ==
    IF numtxt = <<>> THEN Some(acc)
    ELSE IF to_digit(Head(numtxt), radix) = None THEN None
    ELSE FromDigits(Tail(numtxt), radix, acc * radix + Unwrap(to_digit(Head(numtxt), radix)))

from_str_radix(numtxt, radix) ==
    IF numtxt = <<>> THEN None ELSE FromDigits(numtxt, radix, 0)

HasPrefix(numtxt, c) == Len(numtxt) >= 2 /\ numtxt[1] = "0" /\ numtxt[2] = c

\* the Integer branch of parse_expression: the prefixes 0x, 0b and 0d
ParseInteger(numtxt) ==
    IF HasPrefix(numtxt, "x") THEN from_str_radix(Tail(Tail(numtxt)), 16)
    ELSE IF HasPrefix(numtxt, "b") THEN from_str_radix(Tail(Tail(numtxt)), 2)
    ELSE IF HasPrefix(numtxt, "d") THEN from_str_radix(Tail(Tail(numtxt)), 10)
    ELSE from_str_radix(numtxt, 10)

ExprOk(node, rest) == [ok |-> TRUE, node |-> node, rest |-> rest]
ExprErr == [ok |-> FALSE, node |-> Expression, rest |-> <<>>]

\* an Expression node of parse_expression for a unary operator
UnaryExpression(op, operand) ==
    [node_type |-> "Expression", text |-> <<>>, value |-> 0, op |-> op,
     children |-> <<operand>>]

BinaryOpOf(kind) ==
    CASE kind = "Plus" -> Some("Addition")
      [] kind = "Minus" -> Some("Subtraction")
      [] kind = "Multiply" -> Some("Multiplication")
      [] kind = "Divide" -> Some("Division")
      [] OTHER -> None

Registers_has_key(key) ==
    key \in DOMAIN registers32 \/ key \in DOMAIN registers16 \/ key \in DOMAIN registers8

RECURSIVE parse_expression(_, _, _, _)

\* the LParen branch after the right operand: the operator, then the RParen
CloseBinary(operator, lhs, r) ==
    IF ~r.ok \/ BinaryOpOf(operator.kind) = None \/ r.rest = <<>> THEN ExprErr
    ELSE IF Head(r.rest).kind # "RParen" THEN ExprErr
    ELSE ExprOk(BinaryExpression(Unwrap(BinaryOpOf(operator.kind)), lhs, r.node),
                Tail(r.rest))

\* the LParen branch after the left operand
BinaryFrom(l, use_registers, str_available) ==
    IF ~l.ok \/ Len(l.rest) < 2 THEN ExprErr
    ELSE CloseBinary(l.rest[1], l.node,
                     parse_expression(l.rest[2], Tail(Tail(l.rest)), use_registers,
                                      str_available))

UnaryOf(op, r) == IF ~r.ok THEN ExprErr ELSE ExprOk(UnaryExpression(op, r.node), r.rest)

IntegerOf(n, tokens) == IF n = None THEN ExprErr ELSE ExprOk(ConstInteger(Unwrap(n)), tokens)

\* Parser::parse_expression: the node and the iterator behind the expression
parse_expression(current_token, tokens, use_registers, str_available) ==
    CASE current_token.kind = "Integer" -> IntegerOf(ParseInteger(current_token.slice), tokens)
      [] current_token.kind = "Character" ->
           IF Len(current_token.slice) < 3 THEN ExprErr
           ELSE ExprOk(ConstInteger(Ord[current_token.slice[2]]), tokens)
      [] current_token.kind = "LParen" ->
           IF tokens = <<>> THEN ExprErr
           ELSE BinaryFrom(parse_expression(Head(tokens), Tail(tokens), use_registers,
                                            str_available),
                           use_registers, str_available)
      [] current_token.kind = "String" ->
           IF ~str_available THEN ExprErr
           ELSE ExprOk(StringNode(SubSeq(current_token.slice, 2,
                                         Len(current_token.slice) - 1)), tokens)
      [] current_token.kind = "Minus" ->
           IF tokens = <<>> THEN ExprErr
           ELSE UnaryOf("Negate", parse_expression(Head(tokens), Tail(tokens),
                                                   use_registers, str_available))
      [] current_token.kind = "Plus" ->
           IF tokens = <<>> THEN ExprErr
           ELSE UnaryOf("Identity", parse_expression(Head(tokens), Tail(tokens),
                                                     use_registers, str_available))
      [] current_token.kind = "Identifier" ->
           IF Registers_has_key(current_token.slice)
           THEN IF use_registers THEN ExprOk(Register(current_token.slice), tokens)
                ELSE ExprErr
           ELSE ExprOk(Identifier(current_token.slice), tokens)
      [] OTHER -> ExprErr

StmtOk(node, rest) == [ok |-> TRUE, node |-> node, rest |-> rest]
StmtErr == [ok |-> FALSE, node |-> None, rest |-> <<>>]

RECURSIVE ParseArguments(_, _, _)

\* a variant of the separator check that lets the next argument follow an
\* argument directly
ArgumentSeparatorOptional(name, children, r) ==
    IF ~r.ok \/ r.rest = <<>> THEN StmtErr
    ELSE IF Head(r.rest).kind = "Newline"
    THEN StmtOk(Some(InstructionNode(name, Append(children, r.node))), Tail(r.rest))
    ELSE IF Head(r.rest).kind = "Comma"
    THEN IF Len(r.rest) < 2 THEN StmtErr
         ELSE ParseArguments(name, Append(children, r.node), Tail(r.rest))
    ELSE ParseArguments(name, Append(children, r.node), r.rest)

\* the loop of parse_instruction behind an argument: a Comma and a further
\* argument, or the Newline
ArgumentSeparator(name, children, r) ==
    IF ~r.ok \/ r.rest = <<>> THEN StmtErr
    ELSE IF Head(r.rest).kind = "Newline"
    THEN StmtOk(Some(InstructionNode(name, Append(children, r.node))), Tail(r.rest))
    ELSE IF Head(r.rest).kind = "Comma"
    THEN IF Len(r.rest) < 2 THEN StmtErr
         ELSE ParseArguments(name, Append(children, r.node), Tail(r.rest))
    ELSE StmtErr

\* the loop of parse_instruction from the token an argument begins with
ParseArguments(name, children, tokens) ==
    ArgumentSeparator(name, children,
                      parse_expression(Head(tokens), Tail(tokens), TRUE, FALSE))

\* Parser::parse_instruction
parse_instruction(current_token, tokens) ==
    IF tokens = <<>> THEN StmtOk(Some(InstructionNode(current_token.slice, <<>>)), <<>>)
    ELSE IF Head(tokens).kind = "Newline"
    THEN StmtOk(Some(InstructionNode(current_token.slice, <<>>)), Tail(tokens))
    ELSE ParseArguments(current_token.slice, <<>>, tokens)

\* the loop of parse_compiler_instruction
RECURSIVE CompilerArguments(_, _, _)
CompilerArgument(name, children, r) ==
    IF ~r.ok THEN StmtErr ELSE CompilerArguments(name, Append(children, r.node), r.rest)

CompilerArguments(name, children, tokens) ==
    IF tokens = <<>> THEN StmtErr
    ELSE IF Head(tokens).kind = "Newline"
    THEN StmtOk(Some(CompilerInstructionNode(name, children)), Tail(tokens))
    ELSE CompilerArgument(name, children,
                          parse_expression(Head(tokens), Tail(tokens), FALSE, TRUE))

\* Parser::parse_compiler_instruction
parse_compiler_instruction(current_token, tokens) ==
    CompilerArguments(Tail(current_token.slice), <<>>, tokens)

\* Parser::parse_top_level, but for last_label
parse_top_level(token, iterator) ==
    CASE token.kind = "CompilerInstruction" -> parse_compiler_instruction(token, iterator)
      [] token.kind = "Identifier" -> parse_instruction(token, iterator)
      [] token.kind = "Label" ->
           StmtOk(Some(LabelNode(ParseLabel(SubSeq(token.slice, 1, Len(token.slice) - 1))
                                     .label_text)), iterator)
      [] token.kind = "Newline" -> StmtOk(None, iterator)
      [] OTHER -> StmtErr

(***************************************************************************)
(* The assembler run: statements are fed to load_parser_node one by one;   *)
(* alternatively the object is read from an object file.                   *)
(***************************************************************************)
\* the number of statements of a source
MaxStmts == 3

nA == <<"A">>
nB == <<"B">>
la == <<"a">>
lx == <<"@", "x">>
lab == <<"a", "@", "b">>
lat == <<"@">>
r0 == <<"r", "0">>
r00l == <<"r", "0", "0", "l">>
sdata == <<"d", "a", "t", "a">>

SectionInputs == {<<StringNode(sdata)>>, <<>>}

DefineInputs ==
    {<<Identifier(nA), ConstInteger(12)>>, <<Identifier(nA), Identifier(nB)>>,
     <<Identifier(nB), Identifier(nA)>>, <<Identifier(nB), Identifier(nB)>>,
     <<Identifier(nB), Identifier(la)>>,
     <<Identifier(nB), BinaryExpression("Addition", ConstInteger(5), ConstInteger(2))>>,
     <<Identifier(nB), BinaryExpression("Multiplication", Identifier(nA), ConstInteger(10))>>}

DataInputs ==
    {[directive |-> "db", children |-> <<ConstInteger(1)>>],
     [directive |-> "dw", children |-> <<Identifier(la)>>],
     [directive |-> "dd", children |-> <<StringNode(<<"a", "b">>)>>],
     [directive |-> "resb", children |-> <<ConstInteger(0)>>]}

InstrInputs ==
    {[name |-> <<"n", "o", "p">>, children |-> <<>>],
     [name |-> <<"l", "o", "a", "d", "i", "d">>, children |-> <<Identifier(nA), Register(r0)>>],
     [name |-> <<"l", "o", "a", "d", "i", "d">>, children |-> <<Identifier(nB), Register(r0)>>],
     [name |-> <<"l", "o", "a", "d", "i", "b">>, children |-> <<ConstInteger(200), Register(r00l)>>],
     [name |-> <<"j", "p", "r">>, children |-> <<Identifier(la)>>],
     [name |-> <<"j", "p", "r">>, children |-> <<Identifier(lat)>>],
     [name |-> <<"j", "r", "c">>, children |-> <<Identifier(lx), Identifier(<<"Z", "R">>)>>]}

LabelInputs == {la, lx, lab}

\* instructions of object files that some other tool wrote
ForeignInstructions ==
    {InstructionData(12, <<Reference(0, la)>>, <<>>),
     InstructionData(5, <<Reference(0, la)>>, <<Constant(1, "Byte", 0)>>),
     InstructionData(5, <<Reference(0, la)>>, <<Constant(0, "DoubleWord", 7), Constant(1, "Byte", 0)>>),
     InstructionData(13, <<Reference(0, la), Reference(1, la)>>, <<Constant(1, "Byte", 3)>>)}

\* the bytes of an object file with one section text holding one instruction
ForeignFile(instr) ==
    HeaderWrite(1) \o LE(1, 8) \o LE(0, 8) \o LE(0, 8) \o WriteName(DEFAULT_SECTION_NAME)
    \o InstructionWrite(instr)

BackIdle ==
    /\ last_label = <<>>
    /\ sections = NewSections
    /\ defines = EmptyMap
    /\ sections_length = 1
    /\ current_section = DEFAULT_SECTION_NAME
    /\ current_label = <<>>
    /\ status = "loading"
    /\ nstmts = 0
    /\ cur_node = None
    /\ objfile = None
    /\ loaded = None
    /\ link_structure = DefaultLinkStructure
    /\ section_symbols = EmptyMap
    /\ section_binaries = EmptyMap
    /\ link_status = "new"
    /\ nobjects = 0
    /\ image = None
    /\ section_starts = <<>>
    /\ link_error = None
    /\ entrypoint = None

GenInit == BackIdle /\ FrontIdle /\ lexer = IdleLexer

\* ObjectFormat::from_file on an object file: the object read replaces the
\* fresh one
FromFile(binary) ==
    /\ Loading /\ nstmts = 0 /\ objfile = None
    /\ objfile' = Some(binary)
    /\ LET r == from_bytes(binary)
       IN  /\ loaded' = Some(r)
           /\ status' = IF r.ok THEN "ok" ELSE "err"
           /\ sections' = r.sections
           /\ sections_length' = r.sections_length
    /\ UNCHANGED <<last_label, defines, current_section, current_label, nstmts, cur_node>>
    /\ UNCHANGED <<linkvars, frontvars>>

\* one statement of the source
Statement ==
    /\ nstmts < MaxStmts
    /\ \/ \E c \in SectionInputs : SectionCI(c)
       \/ \E c \in DefineInputs : DefineCI(c)
       \/ \E d \in DataInputs : DataCI(d.directive, d.children, None)
       \/ \E i \in InstrInputs : InstructionStmt(i.name, i.children)
       \/ \E l \in LabelInputs : LabelStmt(l)
    /\ UNCHANGED <<objvars, linkvars, frontvars>>

\* the assembler: a source is loaded statement by statement, or an object
\* file is read
Init == GenInit

Next ==
    \/ Statement
    \/ Finish /\ UNCHANGED <<objvars, linkvars, frontvars>>
    \/ \E i \in ForeignInstructions : FromFile(ForeignFile(i))

vars == <<genvars, objvars, linkvars, frontvars>>

Spec == Init /\ [][Next]_vars

(***************************************************************************)
(* Saving the generated object and reading it back.                        *)
(***************************************************************************)
\* for each section, an iteration order of its label map
LabelOrders ==
    {f \in [DOMAIN sections -> UNION {Orders(DOMAIN sections[n].labels) : n \in DOMAIN sections}] :
        \A n \in DOMAIN sections : f[n] \in Orders(DOMAIN sections[n].labels)}

\* ObjectFormat::save_object on the object load_parser_node produced: the
\* bytes of generate_binary under some iteration order of the maps, or the
\* error of a section that cannot be written
SaveObject ==
    /\ status = "ok" /\ objfile = None
    /\ \E section_order \in Orders(DOMAIN sections) : \E label_orders \in LabelOrders :
          LET binary == generate_object(sections_length, sections, section_order, label_orders)
          IN  IF IsSome(binary)
              THEN objfile' = binary /\ status' = status
              ELSE objfile' = objfile /\ status' = "err"
    /\ UNCHANGED <<last_label, sections, defines, sections_length, current_section,
                   current_label, nstmts, cur_node, loaded>>
    /\ UNCHANGED <<linkvars, frontvars>>

\* ObjectFormat::from_file on the file saved: a second object
LoadObject ==
    /\ status = "ok" /\ IsSome(objfile) /\ loaded = None
    /\ loaded' = Some(from_bytes(Unwrap(objfile)))
    /\ UNCHANGED <<genvars, objfile, linkvars, frontvars>>

ObjNext ==
    \/ Statement
    \/ Finish /\ UNCHANGED <<objvars, linkvars, frontvars>>
    \/ SaveObject
    \/ LoadObject

SpecObj == Init /\ [][ObjNext]_vars

(***************************************************************************)
(* Linking: a source is assembled, its object is handed to the linker once *)
(* or several times (as several object files would be), and the image is   *)
(* generated under the default link structure or a link script.            *)
(***************************************************************************)
\* the number of statements of a linked source
MaxLinkStmts == 4

\* the number of objects handed to the linker
MaxObjects == 2

srodata == <<"r", "o", "d", "a", "t", "a">>

LinkSectionInputs == {<<StringNode(sdata)>>, <<StringNode(srodata)>>}

LinkDataInputs ==
    {[directive |-> "dw", children |-> <<ConstInteger(1)>>],
     [directive |-> "db", children |-> <<Identifier(la)>>]}

LinkInstrInputs ==
    {[name |-> <<"n", "o", "p">>, children |-> <<>>],
     [name |-> <<"l", "o", "a", "d", "i", "d">>, children |-> <<Identifier(la), Register(r0)>>],
     [name |-> <<"j", "p", "r">>, children |-> <<Identifier(la)>>]}

\* link scripts as serde_json reads them; ok = FALSE is a file that does not
\* parse
LinkScripts ==
    {[ok |-> TRUE, sections |-> <<LinkStructureSection(DEFAULT_SECTION_NAME, 4),
                                  LinkStructureSection(sdata, 4)>>],
     [ok |-> TRUE, sections |-> <<LinkStructureSection(DEFAULT_SECTION_NAME, 4),
                                  LinkStructureSection(sdata, 8)>>],
     [ok |-> FALSE, sections |-> <<>>]}

\* one statement of the source to link
LinkStatement ==
    /\ nstmts < MaxLinkStmts
    /\ \/ \E c \in LinkSectionInputs : SectionCI(c)
       \/ \E d \in LinkDataInputs : DataCI(d.directive, d.children, None)
       \/ \E i \in LinkInstrInputs : InstructionStmt(i.name, i.children)
       \/ LabelStmt(la)
    /\ UNCHANGED <<objvars, linkvars, frontvars>>

LoadSymbolsResult(r) ==
    /\ section_symbols' = r.symbols
    /\ link_status' = IF r.ok THEN "loaded" ELSE "err"
    /\ link_error' = IF r.ok THEN None ELSE Some(ErrorMessage("Cannot merge", <<>>))

\* Linker::load_symbols on the object load_parser_node produced
LoadSymbols ==
    /\ status = "ok" /\ link_status \in {"new", "loaded"} /\ nobjects < MaxObjects
    /\ \E section_order \in Orders(DOMAIN sections) : \E label_orders \in LabelOrders :
          LoadSymbolsResult(load_symbols(section_symbols, sections, section_order,
                                         label_orders))
    /\ nobjects' = nobjects + 1
    /\ UNCHANGED <<genvars, objvars, frontvars, link_structure, section_binaries, image,
                   section_starts, entrypoint>>

\* LinkStructure::from_file for a path, LinkStructure::new for none
LinkStructureOf(ls_path) ==
    IF IsSome(ls_path) THEN Unwrap(ls_path).sections ELSE DefaultLinkStructure

GenerateResult(link_sections, r) ==
    /\ link_structure' = link_sections
    /\ section_binaries' = r.binaries
    /\ section_starts' = r.starts
    /\ link_status' = r.status
    /\ link_error' = r.error
    /\ image' = IF r.status = "ok" THEN Some(r.binary) ELSE None

\* Linker::generate_binary
GenerateBinary(ls_path) ==
    /\ link_status = "loaded"
    /\ IF IsSome(ls_path) /\ ~Unwrap(ls_path).ok
       THEN /\ link_status' = "err"
            /\ link_error' = Some(ErrorMessage("Failed to open file", <<>>))
            /\ UNCHANGED <<link_structure, section_binaries, image, section_starts>>
       ELSE \E order \in Orders(DOMAIN section_symbols) :
                GenerateResult(LinkStructureOf(ls_path),
                               generate_binary(LinkStructureOf(ls_path), section_symbols,
                                               order, section_binaries))
    /\ UNCHANGED <<genvars, objvars, frontvars, section_symbols, nobjects, entrypoint>>

LinkNext ==
    \/ LinkStatement
    \/ Finish /\ UNCHANGED <<objvars, linkvars, frontvars>>
    \/ LoadSymbols
    \/ GenerateBinary(None)
    \/ \E script \in LinkScripts : GenerateBinary(Some(script))

SpecLink == Init /\ [][LinkNext]_vars

(***************************************************************************)
(* Merging: the sources of a run are assembled one after the other and     *)
(* each object is handed to the linker, after the jumper of the entry      *)
(* point when one is given.                                                *)
(***************************************************************************)
\* the number of statements of the sources of a run, all together
MaxMergeStmts == 4

lb == <<"b">>

MergeLabelInputs == {la, lb}

MergeInstrInputs ==
    {[name |-> <<"n", "o", "p">>, children |-> <<>>],
     [name |-> <<"j", "p", "r">>, children |-> <<Identifier(la)>>]}

\* ObjectFormat::create_jumper: the sections of the object
create_jumper(entry_label) ==
    Insert(NewSections, DEFAULT_SECTION_NAME,
           [NewSection EXCEPT !.instructions =
                <<InstructionData(12, <<Reference(0, entry_label)>>, <<>>)>>])

\* one statement of a source of the run
MergeStatement ==
    /\ nstmts < MaxMergeStmts
    /\ \/ SectionCI(<<StringNode(sdata)>>)
       \/ DataCI("dw", <<ConstInteger(1)>>, None)
       \/ \E i \in MergeInstrInputs : InstructionStmt(i.name, i.children)
       \/ \E l \in MergeLabelInputs : LabelStmt(l)
    /\ UNCHANGED <<objvars, linkvars, frontvars>>

\* main with an entry point: the jumper is the first object the new linker
\* loads
LoadJumper(entry_label) ==
    /\ status = "ok" /\ link_status = "new" /\ nobjects = 0
    /\ LoadSymbolsResult(load_symbols(section_symbols, create_jumper(entry_label),
                                      <<DEFAULT_SECTION_NAME>>,
                                      [n \in {DEFAULT_SECTION_NAME} |-> <<>>]))
    /\ entrypoint' = Some(entry_label)
    /\ UNCHANGED <<genvars, objvars, frontvars, link_structure, section_binaries, image,
                   section_starts, nobjects>>

\* main's loop over the input files: the next source starts from
\* ObjectFormat::new
NextSource ==
    /\ status = "ok" /\ link_status = "loaded" /\ nobjects >= 1 /\ nobjects < MaxObjects
    /\ last_label' = <<>>
    /\ sections' = NewSections
    /\ defines' = EmptyMap
    /\ sections_length' = 1
    /\ current_section' = DEFAULT_SECTION_NAME
    /\ current_label' = <<>>
    /\ status' = "loading"
    /\ cur_node' = None
    /\ UNCHANGED <<nstmts, objvars, linkvars, frontvars>>

MergeNext ==
    \/ MergeStatement
    \/ Finish /\ UNCHANGED <<objvars, linkvars, frontvars>>
    \/ \E entry_label \in MergeLabelInputs : LoadJumper(entry_label)
    \/ LoadSymbols
    \/ NextSource

SpecMerge == Init /\ [][MergeNext]_vars

(***************************************************************************)
(* Data: a source of .db / .dw / .dd directives with one argument each.    *)
(***************************************************************************)
\* the number of directives of a data source
MaxDataStmts == 3

DataDirectives == {"db", "dw", "dd"}

DataArguments ==
    {ConstInteger(1), ConstInteger(300), ConstInteger(70000), Identifier(la),
     StringNode(<<"a", "b">>)}

DataStatement ==
    /\ nstmts < MaxDataStmts
    /\ \E directive \in DataDirectives : \E child \in DataArguments :
          DataCI(directive, <<child>>, None)
    /\ UNCHANGED <<objvars, linkvars, frontvars>>

DataNext ==
    \/ DataStatement
    \/ Finish /\ UNCHANGED <<objvars, linkvars, frontvars>>

SpecData == Init /\ [][DataNext]_vars

(***************************************************************************)
(* Long chains of defines: a source that defines c000 as a literal and     *)
(* then each c<i> as an alias of c<i-1>, and uses one of them once.        *)
(***************************************************************************)
\* the longest chain of aliases a source builds
MaxChain == 103

\* the literal at the end of the chain
ChainLiteral == 7

Digit(d) == <<"0", "1", "2", "3", "4", "5", "6", "7", "8", "9">>[d + 1]

\* the name c<i>, i written with three digits
ChainName(i) == <<"c", Digit(i \div 100), Digit((i \div 10) % 10), Digit(i % 10)>>

\* the number of defines made so far
ChainLength == Cardinality(DOMAIN defines)

\* `.define c000 7`, or `.define c<i> c<i-1>` for the next i
ChainDefine ==
    /\ ~AtInstruction
    /\ ChainLength <= MaxChain
    /\ DefineCI(<<Identifier(ChainName(ChainLength)),
                  IF ChainLength = 0 THEN ConstInteger(ChainLiteral)
                  ELSE Identifier(ChainName(ChainLength - 1))>>)
    /\ UNCHANGED <<objvars, linkvars, frontvars>>

\* `loadid c<j>, r0` for a define c<j> made before: the last statement of
\* the source
ChainUse ==
    /\ ~AtInstruction
    /\ \E j \in 0..MaxChain :
           /\ j < ChainLength
           /\ InstructionStmt(<<"l", "o", "a", "d", "i", "d">>,
                              <<Identifier(ChainName(j)), Register(r0)>>)
    /\ UNCHANGED <<objvars, linkvars, frontvars>>

ChainNext ==
    \/ ChainDefine
    \/ ChainUse
    \/ Finish /\ UNCHANGED <<objvars, linkvars, frontvars>>

SpecChain == Init /\ [][ChainNext]_vars

(***************************************************************************)
(* The front end: main's lex and parse on a source made of lines.          *)
(***************************************************************************)
\* the number of lines of a source
MaxLines == 3

macro == LexerToken("PreprocessInstruction", <<"%", "m", "a", "c", "r", "o">>)
mM == LexerToken("Identifier", <<"m">>)
loadid == LexerToken("Identifier", <<"l", "o", "a", "d", "i", "d">>)
Comma == LexerToken("Comma", <<",">>)
LBracket == LexerToken("LBracket", <<"{">>)
RBracket == LexerToken("RBracket", <<"}">>)
LParen == LexerToken("LParen", <<"(">>)
RParen == LexerToken("RParen", <<")">>)

\* the lines sources are made of, as tokenize returns them
SourceLines ==
    {<<nop, Newline>>,
     <<loadid, LexerToken("Identifier", nA), Comma, LexerToken("Identifier", r0), Newline>>,
     <<loadid, LexerToken("Identifier", nA), LexerToken("Identifier", r0), Newline>>,
     <<loadid, LexerToken("Integer", <<"1", "2">>), Comma, LexerToken("Identifier", r0),
       LexerToken("Comment", <<";", "c">>), Newline>>,
     <<macro, mM, LBracket, nop, LexerToken("Comment", <<";", "c">>), Newline, RBracket,
       Newline>>,
     <<macro, mM, LParen, LexerToken("Identifier", <<"x">>), RParen, LBracket, loadid,
       LexerToken("Escaped", <<"x">>), Comma, LexerToken("Identifier", r0), Newline,
       RBracket, Newline>>,
     <<macro, mM, LBracket>> \o IncludeOf(fA) \o <<RBracket, Newline>>,
     <<macro, mM, LBracket, nop, LexerToken("Escaped", <<"y">>), RBracket, Newline>>,
     <<mM, Newline, Newline>>,
     <<mM>>,
     <<mM, LParen, LexerToken("Identifier", nA), RParen, Newline>>,
     IncludeOf(fA), IncludeOf(fB), IncludeOf(fC)}

RECURSIVE Sources(_)
Sources(n) ==
    IF n = 0 THEN {<<>>}
    ELSE Sources(n - 1) \cup {s \o l : s \in Sources(n - 1), l \in SourceLines}

\* main's lex hands the tokens of the source to a new Preprocessor
FrontInit ==
    /\ BackIdle
    /\ pp_iter \in Sources(MaxLines)
    /\ pp_new = <<>> /\ macro_list = EmptyMap /\ included = EmptyMap
    /\ reads = [p \in DOMAIN Files |-> 0]
    /\ pp_status = "run" /\ parse_pos = 0 /\ parse_prev = None /\ root = <<>>
    /\ parse_status = "idle"
    /\ lexer = IdleLexer

\* the Preprocessor of main's lex
TopPreprocessor ==
    [token_iter |-> pp_iter, new |-> pp_new, macro_list |-> macro_list,
     included |-> included, reads |-> reads, status |-> pp_status]

PreprocessorBecomes(pp) ==
    /\ pp_iter' = pp.token_iter
    /\ pp_new' = pp.new
    /\ macro_list' = pp.macro_list
    /\ included' = pp.included
    /\ reads' = pp.reads
    /\ pp_status' = pp.status

\* one turn of the loop of preprocess in main's lex
PreprocessTurn ==
    /\ pp_status = "run" /\ pp_iter # <<>>
    /\ PreprocessorBecomes(PreprocessToken([TopPreprocessor EXCEPT !.token_iter = Tail(@)],
                                           Head(pp_iter)))
    /\ UNCHANGED <<genvars, objvars, linkvars, parse_pos, parse_prev, root, parse_status,
                   lexer>>

\* preprocess returns Ok(new)
PreprocessReturn ==
    /\ pp_status = "run" /\ pp_iter = <<>>
    /\ pp_status' = "ok"
    /\ parse_status' = "run"
    /\ UNCHANGED <<genvars, objvars, linkvars, pp_iter, pp_new, macro_list, included, reads,
                   parse_pos, parse_prev, root, lexer>>

\* the iterator of Parser::parse
Iterator == SubSeq(pp_new, parse_pos + 1, Len(pp_new))

ParsedBecomes(token, r) ==
    /\ parse_prev' = Some(parse_pos)
    /\ IF ~r.ok
       THEN parse_status' = "err" /\ UNCHANGED <<parse_pos, root, last_label>>
       ELSE /\ parse_pos' = Len(pp_new) - Len(r.rest)
            /\ root' = IF r.node = None THEN root ELSE Append(root, Unwrap(r.node))
            /\ last_label' = IF token.kind = "Label"
                             THEN ParseLabel(SubSeq(token.slice, 1, Len(token.slice) - 1))
                                      .last_label
                             ELSE last_label
            /\ UNCHANGED parse_status

\* one turn of the loop of Parser::parse: parse_top_level on the next token
ParseTurn ==
    /\ parse_status = "run" /\ parse_pos < Len(pp_new)
    /\ ParsedBecomes(pp_new[parse_pos + 1],
                     parse_top_level(pp_new[parse_pos + 1],
                                     SubSeq(pp_new, parse_pos + 2, Len(pp_new))))
    /\ UNCHANGED <<sections, defines, sections_length, current_section, current_label,
                   status, nstmts, cur_node, objvars, linkvars, pp_iter, pp_new, macro_list,
                   included, reads, pp_status, lexer>>

\* Parser::parse returns Ok(root)
ParseReturn ==
    /\ parse_status = "run" /\ parse_pos = Len(pp_new)
    /\ parse_status' = "ok"
    /\ UNCHANGED <<genvars, objvars, linkvars, pp_iter, pp_new, macro_list, included, reads,
                   pp_status, parse_pos, parse_prev, root, lexer>>

FrontNext ==
    \/ PreprocessTurn
    \/ PreprocessReturn
    \/ ParseTurn
    \/ ParseReturn

SpecFront == FrontInit /\ [][FrontNext]_vars

(***************************************************************************)
(* Lexing: tokenize on a source text.                                      *)
(***************************************************************************)
\* the length of a source text
MaxCode == 4

LexAlphabet == {"a", " ", "\n", ";", ",", "\\", "$"}

Codes == UNION {[1..k -> LexAlphabet] : k \in 0..MaxCode}

LexInit == BackIdle /\ FrontIdle /\ lexer \in {NewLexer(code) : code \in Codes}

\* one turn of the while loop of tokenize_internal
LexTurn ==
    /\ lexer.status = "run"
    /\ lexer' = tokenize_internal(lexer)
    /\ UNCHANGED <<genvars, objvars, linkvars, pp_iter, pp_new, macro_list, included, reads,
                   pp_status, parse_pos, parse_prev, root, parse_status>>

LexNext == LexTurn

SpecLex == LexInit /\ [][LexNext]_vars

(***************************************************************************)
(* Properties of the assembler run.                                        *)
(***************************************************************************)
\* the section that is current, when it exists
CurrentSection == sections[current_section]

\* the instruction appended last to the current section
LastInstruction == CurrentSection.instructions[Len(CurrentSection.instructions)]

\* some argument position of instr carries both a reference and a constant
CarriesBoth(instr) ==
    \E p \in 0..255 :
        /\ \E i \in 1..Len(instr.references) : instr.references[i].argument_pos = p
        /\ \E j \in 1..Len(instr.constants) : instr.constants[j].argument_pos = p

\* C1: the object read back from the bytes written for a generated object is
\* read successfully and has the same section count and the same sections:
\* names, instructions (opcode, references, constants with position, size
\* and value), labels, binary units and binary-mode flag.
C1_RoundTrip ==
    IsSome(loaded) =>
        /\ Unwrap(loaded).ok
        /\ Unwrap(loaded).sections_length = sections_length
        /\ Unwrap(loaded).sections = sections

\* the node load_parser_node took last is `.define NAME (a OP b)` with a and b
\* integer literals or names, other than NAME, that the define table binds to
\* integers
IntegerOperand(n, name) ==
    \/ n.node_type = "ConstInteger"
    \/ /\ n.node_type = "Identifier" /\ n.text # name /\ n.text \in DOMAIN defines
       /\ defines[n.text].node_type = "ConstInteger"

AtDefineOfExpression ==
    /\ IsSome(cur_node)
    /\ Unwrap(cur_node).node_type = "CompilerInstruction"
    /\ Unwrap(cur_node).name = "define"
    /\ Len(Unwrap(cur_node).children) = 2
    /\ Unwrap(cur_node).children[1].node_type = "Identifier"
    /\ Unwrap(cur_node).children[2].node_type = "Expression"
    /\ \A i \in 1..2 : IntegerOperand(Unwrap(cur_node).children[2].children[i],
                                      Unwrap(cur_node).children[1].text)

OperandValue(n) == IF n.node_type = "ConstInteger" THEN n.value ELSE defines[n.text].value

\* the arithmetic result of a binary expression over integers
ExpressionValue(e) ==
    CASE e.op = "Addition" -> OperandValue(e.children[1]) + OperandValue(e.children[2])
      [] e.op = "Subtraction" -> OperandValue(e.children[1]) - OperandValue(e.children[2])
      [] e.op = "Multiplication" -> OperandValue(e.children[1]) * OperandValue(e.children[2])
      [] e.op = "Division" -> OperandValue(e.children[1]) \div OperandValue(e.children[2])

\* C11: after `.define NAME (a OP b)` with integer operands the define table
\* binds NAME to one ConstInteger node holding the arithmetic result, and
\* the processing has not aborted.
C11_ExpressionFolded ==
    AtDefineOfExpression =>
        /\ status \notin {"abort", "err"}
        /\ Unwrap(cur_node).children[1].text \in DOMAIN defines
        /\ defines[Unwrap(cur_node).children[1].text]
               = ConstInteger(ExpressionValue(Unwrap(cur_node).children[2]))

\* the node load_parser_node took last is an instruction that it accepted
AtAcceptedInstruction ==
    /\ IsSome(cur_node)
    /\ Unwrap(cur_node).node_type = "Instruction"
    /\ status # "err" /\ status # "abort"
    /\ current_section \in DOMAIN sections
    /\ Len(sections[current_section].instructions) > 0

\* how many references and constants an instruction carries for argument
\* position pos
CarriedFor(instr, pos) ==
    Cardinality({k \in DOMAIN instr.references : instr.references[k].argument_pos = pos})
    + Cardinality({k \in DOMAIN instr.constants : instr.constants[k].argument_pos = pos})

\* C28: an instruction the generator appends carries exactly one reference or
\* constant for each argument position of its opcode's signature, whatever
\* the argument is, a define that names an identifier that is no define
\* included
C28_OneValuePerArgument ==
    AtAcceptedInstruction =>
        \A pos \in 0..(Len(Unwrap(get_instruction(LastInstruction.opcode)).args) - 1) :
            CarriedFor(LastInstruction, pos) = 1

\* the references of the instruction added last that belong to argument i
ReferencesOfArgument(i) ==
    {sections[current_section].instructions[Len(sections[current_section].instructions)]
         .references[k].rf :
       k \in {j \in 1..Len(sections[current_section].instructions[
                              Len(sections[current_section].instructions)].references) :
                sections[current_section].instructions[
                    Len(sections[current_section].instructions)].references[j].argument_pos
                  = i - 1}}

\* C14: an argument `@X` of an accepted instruction is mangled as a definition
\* `@X:` at the same place would be, to OUTER@X with OUTER the most recent
\* label whose source text does not start with '@' (the parser's last_label),
\* so that after `@X:` under the same outer label the reference names a label
\* of the section.
C14_SublabelUseMatchesDefinition ==
    AtAcceptedInstruction =>
        \A i \in 1..Len(Unwrap(cur_node).children) :
            (/\ Unwrap(cur_node).children[i].node_type = "Identifier"
             /\ starts_with(Unwrap(cur_node).children[i].text, "@")
             /\ Len(Unwrap(cur_node).children[i].text) > 1
             /\ Unwrap(cur_node).children[i].text \notin DOMAIN defines)
            => ReferencesOfArgument(i) = {ParseLabel(Unwrap(cur_node).children[i].text).label_text}

\* C15: an argument that is the bare identifier `@` of an accepted instruction
\* becomes a reference whose symbol is exactly the current outer label.
C15_BareAtIsOuterLabel ==
    AtAcceptedInstruction =>
        \A i \in 1..Len(Unwrap(cur_node).children) :
            (/\ Unwrap(cur_node).children[i] = Identifier(lat)
             /\ lat \notin DOMAIN defines)
            => ReferencesOfArgument(i) = {current_label}

\* C2: after any accepted sequence of directives, labels and instructions no
\* section has both a non-empty instruction list and a non-empty list of
\* binary units.
C2_NoMixedSection ==
    \A n \in DOMAIN sections :
        ~(Len(sections[n].instructions) # 0 /\ Len(sections[n].binary_data) # 0)

\* C5: no instruction that the generator appended or that from_bytes returned
\* has an argument position with both a reference and a constant, and an
\* object file whose instruction has such a position is rejected.
C5_ReferencesConstantsDisjoint ==
    /\ \A n \in DOMAIN sections : \A i \in 1..Len(sections[n].instructions) :
           ~CarriesBoth(sections[n].instructions[i])
    /\ \A f \in ForeignInstructions :
           (objfile = Some(ForeignFile(f)) /\ CarriesBoth(f)) => status = "err"

\* an object file with a position carrying both has been read and rejected
C5_RejectedFile ==
    \E f \in ForeignInstructions :
        objfile = Some(ForeignFile(f)) /\ CarriesBoth(f) /\ status = "err"

\* the aliases of the define called name never leave the defines that name
\* other defines: name is on a cycle of aliases, or leads into one
LeadsIntoCycle(name) ==
    \E S \in SUBSET DOMAIN defines :
        /\ name \in S
        /\ \A m \in S : defines[m].node_type = "Identifier" /\ defines[m].text \in S

\* the instruction node n has an identifier argument that leads into a cycle
UsesCycle(n) ==
    \E i \in 1..Len(n.children) :
        /\ n.children[i].node_type = "Identifier"
        /\ LeadsIntoCycle(n.children[i].text)

\* C9: an instruction statement with an argument naming a define on a cycle of
\* aliases ends in an error, after no more than MAX_DEFINE_DEPTH + 1 nested
\* resolve_define calls, and appends no instruction to any section.
C9_CycleIsAnError ==
    [][(/\ nstmts' = nstmts + 1
        /\ Unwrap(cur_node').node_type = "Instruction"
        /\ UsesCycle(Unwrap(cur_node')))
       => /\ status' = "err"
          /\ sections' = sections
          /\ BuildInstruction(Unwrap(cur_node').name, Unwrap(cur_node').children,
                              current_label).depth <= MAX_DEFINE_DEPTH + 1]_vars

\* an instruction naming a define on a cycle has been processed and refused
C9_CycleRefused == AtInstruction /\ UsesCycle(Unwrap(cur_node)) /\ status = "err"

\* the node that the aliases of the define called name end in, following at
\* most k of them
RECURSIVE AliasTarget(_, _)
AliasTarget(name, k) ==
    IF k # 0 /\ defines[name].node_type = "Identifier" /\ defines[name].text \in DOMAIN defines
    THEN AliasTarget(defines[name].text, k - 1)
    ELSE defines[name]

\* argument i (from 0) of the instruction node n expects an Immediate32 and is
\* an identifier bound, directly or through aliases, to an integer literal
BoundImmediate32(n, i) ==
    /\ n.name \in DOMAIN ilist
    /\ Len(ilist[n.name].args) = Len(n.children)
    /\ i < Len(n.children)
    /\ ilist[n.name].args[i + 1] = "Immediate32"
    /\ n.children[i + 1].node_type = "Identifier"
    /\ n.children[i + 1].text \in DOMAIN defines
    /\ AliasTarget(n.children[i + 1].text, Cardinality(DOMAIN defines)).node_type
           = "ConstInteger"

\* the integer that argument i of n is bound to
BoundValue(n, i) == AliasTarget(n.children[i + 1].text, Cardinality(DOMAIN defines)).value

\* C10: an emitted instruction whose Immediate32 argument is an identifier
\* bound through defines to the integer n carries at that position exactly
\* one constant, a double word of value n, and no reference.
C10_DefineBecomesConstant ==
    (AtInstruction /\ status # "err") =>
        \A i \in 0..1 :
            BoundImmediate32(Unwrap(cur_node), i) =>
                /\ Cardinality({j \in 1..Len(LastInstruction.constants) :
                                   LastInstruction.constants[j].argument_pos = i}) = 1
                /\ \A j \in 1..Len(LastInstruction.constants) :
                       LastInstruction.constants[j].argument_pos = i =>
                           /\ LastInstruction.constants[j].size = "DoubleWord"
                           /\ LastInstruction.constants[j].value = BoundValue(Unwrap(cur_node), i)
                /\ \A j \in 1..Len(LastInstruction.references) :
                       LastInstruction.references[j].argument_pos # i

\* an instruction whose Immediate32 argument is bound through an alias of a
\* define has been emitted
C10_AliasedDefineEmitted ==
    /\ AtInstruction /\ status # "err"
    /\ BoundImmediate32(Unwrap(cur_node), 0)
    /\ defines[Unwrap(cur_node).children[1].text].node_type = "Identifier"
    /\ Len(LastInstruction.constants) > 0

\* the defines are the chain c000 = ChainLiteral, c<i> = c<i-1>
IsChain ==
    \A i \in 0..MaxChain :
        i < ChainLength =>
            /\ ChainName(i) \in DOMAIN defines
            /\ defines[ChainName(i)] = IF i = 0 THEN ConstInteger(ChainLiteral)
                                        ELSE Identifier(ChainName(i - 1))

\* the instruction taken last is `loadid c<k>, r0`: its argument reaches the
\* literal through k defines that each name another define
UsesChainOf(k) ==
    /\ AtInstruction
    /\ Unwrap(cur_node).children = <<Identifier(ChainName(k)), Register(r0)>>
    /\ k < ChainLength
    /\ IsChain

\* the instruction was emitted with the literal as the constant of argument 0
ChainResolved ==
    /\ status # "err"
    /\ Len(CurrentSection.instructions) = 1
    /\ LastInstruction.references = <<>>
    /\ LastInstruction.constants =
           <<Constant(0, "DoubleWord", ChainLiteral), Constant(1, "Byte", 0)>>

\* the statement failed in resolve_define's depth check, nothing emitted
ChainRefused ==
    /\ status = "err"
    /\ Len(CurrentSection.instructions) = 0
    /\ BuildInstruction(Unwrap(cur_node).name, Unwrap(cur_node).children,
                        current_label).depth > MAX_DEFINE_DEPTH

\* C8 (as the code has it): an argument that reaches a literal through a
\* chain of k defines that each name another define resolves for every
\* k <= 101 and fails with the looping-defines error for every k > 101.
C8_ChainLimit ==
    \A k \in 0..MaxChain :
        UsesChainOf(k) => IF k <= MAX_DEFINE_DEPTH + 1 THEN ChainResolved ELSE ChainRefused

\* C8 as stated: success for every k <= 100, the error for every k > 100
C8_ChainLimitAsStated ==
    \A k \in 0..MaxChain :
        UsesChainOf(k) => IF k <= MAX_DEFINE_DEPTH THEN ChainResolved ELSE ChainRefused

\* a chain of 101 defines that each name another define has resolved
C8_LongestChainResolved == UsesChainOf(MAX_DEFINE_DEPTH + 1) /\ ChainResolved

(***************************************************************************)
(* Properties of the linked image.                                         *)
(***************************************************************************)
Linked == link_status = "ok"

\* the link sections by position, with their loaded section
LinkIndices == 1..Len(link_structure)
LinkedSection(i) == section_symbols[link_structure[i].name]

\* the image index at which the bytes of link section i begin, and the length
\* of the image once that section and its padding are written
ImageStart(i) == section_starts[i]
ImageEnd(i) ==
    IF i < Len(section_starts) THEN section_starts[i + 1] ELSE Len(Unwrap(image))

\* the encoded size of the first n entries of a section
EncodedSizeBefore(sec, n) ==
    IF sec.binary_section THEN SumUnitSizes(SubSeq(sec.binary_data, 1, n))
    ELSE SumInstructionSizes(SubSeq(sec.instructions, 1, n))

\* the image addresses of the definitions of a label
LabelAddresses(rf) ==
    {ImageStart(i) + EncodedSizeBefore(LinkedSection(i), LinkedSection(i).labels[rf].ptr) :
        i \in {j \in LinkIndices : rf \in DOMAIN LinkedSection(j).labels}}

\* the image address of the first byte of instruction k of link section i
InstructionAddress(i, k) ==
    ImageStart(i) + SumInstructionSizes(SubSeq(LinkedSection(i).instructions, 1, k - 1))

\* the offset of argument pos within an encoded instruction
ArgumentOffset(instr_symbol, pos) ==
    (IF extended_opcode(instr_symbol) THEN 2 ELSE 1)
    + SumArgSizes(SubSeq(instr_symbol.args, 1, pos))

\* the n image cells from index at on are the bytes bs; the cells are taken
\* in printed form, as a cell that is not a byte equals no byte
ImageHolds(at, bs) ==
    /\ at + Len(bs) <= Len(Unwrap(image))
    /\ ToString(SubSeq(Unwrap(image), at + 1, at + Len(bs))) = ToString(bs)

\* the references of instruction k of link section i whose argument has, or
\* has not, the type RelPointer
ArgumentType(instr, r) == Unwrap(get_instruction(instr.opcode)).args[r.argument_pos + 1]

ReferencesAt(i, k, relative) ==
    LET instr == LinkedSection(i).instructions[k]
    IN  {n \in 1..Len(instr.references) :
            (ArgumentType(instr, instr.references[n]) = "RelPointer") = relative}

CodeSections == {i \in LinkIndices : ~LinkedSection(i).binary_section}
DataSections == {i \in LinkIndices : LinkedSection(i).binary_section}

\* the image holds value, in the width of the argument, where the argument of
\* reference r of instruction k of link section i is encoded
ArgumentHolds(i, k, r, value) ==
    LET instr == LinkedSection(i).instructions[k]
        instr_symbol == Unwrap(get_instruction(instr.opcode))
    IN  ImageHolds(InstructionAddress(i, k) + ArgumentOffset(instr_symbol, r.argument_pos),
                   LE(value, ArgSize(instr_symbol.args[r.argument_pos + 1])))

\* C3: in a linked image, every RelPointer argument that carries a reference
\* holds, as 4 little-endian bytes, the image address of the referenced label
\* minus the image address of the first byte of its instruction, in whichever
\* link section the instruction lies.
C3_RelPointerIsDistance ==
    Linked =>
        \A i \in CodeSections : \A k \in 1..Len(LinkedSection(i).instructions) :
            \A n \in ReferencesAt(i, k, TRUE) :
                LET r == LinkedSection(i).instructions[k].references[n]
                IN  \E target \in LabelAddresses(r.rf) :
                        ArgumentHolds(i, k, r, target - InstructionAddress(i, k))

\* C4: in a linked image, every link section begins at an index divisible by
\* its alignment, and the padding written after it ends at an index divisible
\* by that alignment.
C4_SectionsAligned ==
    Linked =>
        \A i \in LinkIndices :
            /\ ImageStart(i) % link_structure[i].alignment = 0
            /\ ImageEnd(i) % link_structure[i].alignment = 0

\* the bytes a unit stands for: the low `size` bytes of its constant, or of
\* an address of the label it refers to
UnitBytes(unit) ==
    IF IsSome(unit.constant)
    THEN {LE(Unwrap(unit.constant).value, to_u8(Unwrap(unit.constant).size))}
    ELSE {LE(target, to_u8(Unwrap(unit.reference).size)) :
             target \in LabelAddresses(Unwrap(unit.reference).rf)}

\* C6: in a linked image, a data section holds its units in order, each as
\* exactly `size` bytes: the low bytes of the constant, or of the address of
\* the referenced label, little-endian.
C6_UnitsEmittedBySize ==
    Linked =>
        \A i \in DataSections : \A j \in 1..Len(LinkedSection(i).binary_data) :
            \E bs \in UnitBytes(LinkedSection(i).binary_data[j]) :
                ImageHolds(ImageStart(i) + EncodedSizeBefore(LinkedSection(i), j - 1), bs)

\* the address stated for a label: the offset of its section plus the
\* encoded sizes of the entries before it
StatedAddresses(rf) ==
    {get_section_offset(link_structure, section_symbols, link_structure[i].name).val
        + EncodedSizeBefore(LinkedSection(i), LinkedSection(i).labels[rf].ptr) :
        i \in {j \in LinkIndices : rf \in DOMAIN LinkedSection(j).labels}}

\* C7: in a linked image, an argument (not a RelPointer) that carries a
\* reference to a label holds the offset of the label's section plus the sum
\* of the encoded sizes of the entries before the label: instruction sizes
\* in a code section, unit sizes in a data section.
C7_LabelAddress ==
    Linked =>
        \A i \in CodeSections : \A k \in 1..Len(LinkedSection(i).instructions) :
            \A n \in ReferencesAt(i, k, FALSE) :
                LET r == LinkedSection(i).instructions[k].references[n]
                IN  \E address \in StatedAddresses(r.rf) :
                        ArgumentHolds(i, k, r, address)

\* C23: in a linked image, get_section_offset of every link section is the
\* number of image bytes, contents and padding, written before that section,
\* so that an address made of it is an index of the image.
C23_SectionOffsetIsImageStart ==
    Linked =>
        \A i \in LinkIndices :
            get_section_offset(link_structure, section_symbols, link_structure[i].name).val
                = ImageStart(i)

\* the image generate_binary returns for the loaded sections and the link
\* structure when the section map iterates in the given order
ImageUnder(order) == generate_binary(link_structure, section_symbols, order, EmptyMap)

\* C16: for the loaded sections and the link structure of a generated image,
\* generate_binary returns that same image under every iteration order of the
\* section map.
C16_ImageIndependentOfMapOrder ==
    Linked =>
        \A order \in Orders(DOMAIN section_symbols) :
            /\ ImageUnder(order).status = "ok"
            /\ ToString(ImageUnder(order).binary) = ToString(Unwrap(image))

\* generate_binary got past reading the link structure and has returned or
\* aborted
Generated ==
    /\ link_status \in {"ok", "err", "abort"}
    /\ ~(IsSome(link_error)
         /\ Unwrap(link_error).message \in {"Cannot merge", "Failed to open file"})

LoadedLabels == UNION {DOMAIN section_symbols[n].labels : n \in DOMAIN section_symbols}

\* the symbols that instructions of loaded sections reference and that are
\* labels of no loaded section
UndefinedSymbols ==
    UNION {UNION {{section_symbols[n].instructions[k].references[j].rf :
                      j \in 1..Len(section_symbols[n].instructions[k].references)} :
                  k \in 1..Len(section_symbols[n].instructions)} :
           n \in DOMAIN section_symbols}
    \ LoadedLabels

\* C17: when an instruction of a loaded section references a symbol that is a
\* label of no loaded section, generate_binary returns an error whose message
\* names such a symbol, and no image.
C17_UndefinedReferenceReported ==
    (Generated /\ UndefinedSymbols # {}) =>
        /\ link_status = "err"
        /\ image = None
        /\ IsSome(link_error)
        /\ Unwrap(link_error).message = "Failed to resolve reference"
        /\ Unwrap(link_error).name \in UndefinedSymbols

\* the names the link structure declares for which no section is loaded
MissingLinkSections ==
    {link_structure[i].name : i \in LinkIndices} \ DOMAIN section_symbols

\* C18: when the link structure declares a section that is not loaded,
\* generate_binary returns an error value: it does not abort and returns no
\* image.
C18_MissingSectionIsAnError ==
    (Generated /\ MissingLinkSections # {}) =>
        /\ link_status = "err"
        /\ image = None

(***************************************************************************)
(* Properties of the front end.                                            *)
(***************************************************************************)
\* C12: when preprocess has succeeded, its output holds no Comment token and
\* no PreprocessInstruction token, whether a token came from the source, from
\* a macro expansion or from an included file.
C12_NoCommentNoDirectiveLeft ==
    pp_status = "ok" =>
        \A i \in 1..Len(pp_new) :
            pp_new[i].kind \notin {"Comment", "PreprocessInstruction"}

\* the statement parse_top_level took last: the tokens from the one it was
\* handed to the Newline that ends the line
StatementStart == Unwrap(parse_prev) + 1

NewlinesFrom(i) == {j \in i..Len(pp_new) : pp_new[j].kind = "Newline"}

StatementEnd ==
    CHOOSE j \in NewlinesFrom(StatementStart) :
        \A k \in NewlinesFrom(StatementStart) : j <= k

AtInstructionStatement ==
    /\ IsSome(parse_prev)
    /\ pp_new[StatementStart].kind = "Identifier"
    /\ NewlinesFrom(StatementStart) # {}

\* the tokens between the commas of a line
RECURSIVE SplitAtCommas(_, _, _)
SplitAtCommas(toks, cur, acc) ==
    IF toks = <<>> THEN Append(acc, cur)
    ELSE IF Head(toks).kind = "Comma" THEN SplitAtCommas(Tail(toks), <<>>, Append(acc, cur))
    ELSE SplitAtCommas(Tail(toks), Append(cur, Head(toks)), acc)

Arguments ==
    SplitAtCommas(SubSeq(pp_new, StatementStart + 1, StatementEnd - 1), <<>>, <<>>)

ExpressionOf(toks) ==
    IF toks = <<>> THEN ExprErr ELSE parse_expression(Head(toks), Tail(toks), TRUE, FALSE)

IsOneExpression(toks) == ExpressionOf(toks).ok /\ ExpressionOf(toks).rest = <<>>

IsTwoExpressions(toks) ==
    /\ ExpressionOf(toks).ok
    /\ ExpressionOf(ExpressionOf(toks).rest).ok

C19_RedefinitionIsAnError ==
    [][(/\ pp_status = "run"
        /\ Len(pp_iter) >= 2
        /\ pp_iter[1].kind = "PreprocessInstruction"
        /\ Tail(pp_iter[1].slice) = <<"m", "a", "c", "r", "o">>
        /\ pp_iter[2].kind = "Identifier"
        /\ pp_iter[2].slice \in DOMAIN macro_list)
       => pp_status' = "err"]_vars

\* C20: during one run every file is read from disk at most once, however
\* many include directives name it.
C20_FileReadAtMostOnce ==
    \A path \in DOMAIN reads : reads[path] <= 1

(***************************************************************************)
(* Properties of merging the objects of a run.                             *)
(***************************************************************************)
\* a step of Linker::load_symbols on the object just assembled, and its two
\* outcomes
LoadStep == nobjects' = nobjects + 1
LoadOk == LoadStep /\ link_status' = "loaded"
LoadErr == LoadStep /\ link_status' = "err"

\* the sections of the object that meet a section of the same name
MergedNames == DOMAIN sections \cap DOMAIN section_symbols

\* the entries of a section: the units of a data section, the instructions
\* of a code section
Entries(sec) == IF sec.binary_section THEN sec.binary_data ELSE sec.instructions

JumperInstruction == InstructionData(12, <<Reference(0, Unwrap(entrypoint'))>>, <<>>)

TextBefore == section_symbols[DEFAULT_SECTION_NAME]
TextAfter == section_symbols'[DEFAULT_SECTION_NAME]
TextLoaded == sections[DEFAULT_SECTION_NAME]

JumperLeads ==
    /\ Len(TextAfter.instructions) >= 1
    /\ TextAfter.instructions[1] = JumperInstruction

\* C21 as stated: with an entry point, after a load the jumper is the
\* first instruction of text, the user's instructions follow in their order, and
\* the ptr of every label of the loaded text is greater by exactly 1
C21_LabelsMovedByOne ==
    [][(LoadOk /\ IsSome(entrypoint))
        => /\ JumperLeads
           /\ TextAfter.instructions = TextBefore.instructions \o TextLoaded.instructions
           /\ \A l \in DOMAIN TextLoaded.labels :
                 /\ l \in DOMAIN TextAfter.labels
                 /\ TextAfter.labels[l].ptr = TextLoaded.labels[l].ptr + 1]_vars

\* C21: with an entry point, after a load the jumper is the first instruction
\* of text, the user's instructions follow in their order, and the ptr of
\* every label of the loaded text is greater by the instructions text held
\* before: 1 for the first user object, 1 plus the instructions of the
\* objects loaded earlier for a later one, so that it names the same user
\* instruction
C21_JumperLeadsUserText ==
    [][(LoadOk /\ IsSome(entrypoint))
        => /\ JumperLeads
           /\ TextAfter.instructions = TextBefore.instructions \o TextLoaded.instructions
           /\ nobjects = 0 => Len(TextBefore.instructions) = 1
           /\ \A l \in DOMAIN TextLoaded.labels :
                 /\ l \in DOMAIN TextAfter.labels
                 /\ TextAfter.labels[l].ptr
                      = TextLoaded.labels[l].ptr + Len(TextBefore.instructions)
                 /\ TextLoaded.labels[l].ptr < Len(TextLoaded.instructions)
                      => TextAfter.instructions[TextAfter.labels[l].ptr + 1]
                           = TextLoaded.instructions[TextLoaded.labels[l].ptr + 1]]_vars

\* a second user object with a label in text has been merged behind the
\* jumper and a first object with instructions
C21_Witness ==
    /\ IsSome(entrypoint) /\ link_status = "loaded" /\ nobjects = 2
    /\ DEFAULT_SECTION_NAME \in DOMAIN section_symbols
    /\ \E l \in DOMAIN TextLoaded.labels :
          /\ l \in DOMAIN TextBefore.labels
          /\ TextLoaded.labels[l].ptr < Len(TextLoaded.instructions)
          /\ TextBefore.labels[l].ptr > TextLoaded.labels[l].ptr + 1

\* what append_other is to make of a target and an incoming section
MergedAs(self, other, merged) ==
    /\ merged.binary_section = self.binary_section
    /\ Entries(merged) = Entries(self) \o Entries(other)
    /\ DOMAIN merged.labels = DOMAIN self.labels \cup DOMAIN other.labels
    /\ \A l \in DOMAIN self.labels : merged.labels[l] = self.labels[l]
    /\ \A l \in DOMAIN other.labels :
          /\ merged.labels[l].ptr = other.labels[l].ptr + Len(Entries(self))
          /\ other.labels[l].ptr < Len(Entries(other))
               => Entries(merged)[merged.labels[l].ptr + 1]
                    = Entries(other)[other.labels[l].ptr + 1]

\* C24: when load_symbols merges a section into one of the same name, the
\* entries and labels of the target are kept, the incoming entries follow in
\* their order, and every incoming label's ptr is greater by the entries the
\* target held, in code and in data sections, so that it names the same
\* entry
C24_MergeAppendsAndMovesLabels ==
    [][LoadOk => \A n \in MergedNames :
                    MergedAs(section_symbols[n], sections[n], section_symbols'[n])]_vars

\* a data section with a label has been merged behind a data section that
\* held a unit
C24_Witness ==
    /\ link_status = "loaded" /\ nobjects = 2
    /\ \E n \in MergedNames :
          /\ section_symbols[n].binary_section
          /\ \E l \in DOMAIN sections[n].labels :
                /\ l \in DOMAIN section_symbols[n].labels
                /\ section_symbols[n].labels[l].ptr > sections[n].labels[l].ptr
                /\ sections[n].labels[l].ptr < Len(sections[n].binary_data)

\* a section with no instructions and no binary units
IsEmptySection(sec) == sec.instructions = <<>> /\ sec.binary_data = <<>>

\* the loads C29 speaks of: every section that meets one of its name is
\* empty or meets an empty one, one of them does so with a section that is
\* not empty, and no label is in both
EmptyMeetsSection ==
    /\ LoadStep
    /\ \A n \in MergedNames :
          /\ IsEmptySection(sections[n]) \/ IsEmptySection(section_symbols[n])
          /\ DOMAIN sections[n].labels \cap DOMAIN section_symbols[n].labels = {}
    /\ \E n \in MergedNames :
          ~IsEmptySection(sections[n]) \/ ~IsEmptySection(section_symbols[n])

NonEmptyOf(self, other) == IF IsEmptySection(self) THEN other ELSE self

\* C29: merging an empty section with a section of its name succeeds in
\* either order, and the merged section has the content and mode of the one
\* that is not empty and the labels of both
C29_EmptySectionMerges ==
    [][EmptyMeetsSection
        => /\ LoadOk
           /\ \A n \in MergedNames :
                 /\ section_symbols'[n].instructions
                      = NonEmptyOf(section_symbols[n], sections[n]).instructions
                 /\ section_symbols'[n].binary_data
                      = NonEmptyOf(section_symbols[n], sections[n]).binary_data
                 /\ section_symbols'[n].binary_section
                      = NonEmptyOf(section_symbols[n], sections[n]).binary_section
                 /\ DOMAIN section_symbols'[n].labels
                      = DOMAIN section_symbols[n].labels \cup DOMAIN sections[n].labels]_vars

\* C30: when load_symbols returns an error, the section map is as it was
\* before the call
C30_FailedLoadLeavesMap == [][LoadErr => section_symbols' = section_symbols]_vars

(***************************************************************************)
(* Properties of the data directives.                                      *)
(***************************************************************************)
\* a step of _db_ci / _dw_ci / _dd_ci that returned Ok, its directive, its
\* argument, and the units it appended to the current section
DataStep ==
    /\ nstmts' = nstmts + 1 /\ status' = "loading"
    /\ Unwrap(cur_node').node_type = "CompilerInstruction"
    /\ Unwrap(cur_node').name \in {"db", "dw", "dd"}

DataDirective == Unwrap(cur_node').name
DataArgument == Unwrap(cur_node').children[1]
AppendedUnits ==
    SubSeq(sections'[current_section].binary_data,
           Len(sections[current_section].binary_data) + 1,
           Len(sections'[current_section].binary_data))

\* the size of a unit, of whichever kind
SizeOfUnit(unit) ==
    IF IsSome(unit.constant) THEN Unwrap(unit.constant).size ELSE Unwrap(unit.reference).size

\* C27: every unit .db / .dw / .dd appends has the size of the directive (1,
\* 2 or 4 bytes) whatever the magnitude of an integer literal; an integer
\* appends one constant unit, a string one constant unit per byte, an
\* identifier one reference unit
C27_UnitsHaveDirectiveSize ==
    [][DataStep
        => /\ sections'[current_section].binary_data
                = sections[current_section].binary_data \o AppendedUnits
           /\ \A i \in DOMAIN AppendedUnits :
                 SizeOfUnit(AppendedUnits[i]) = DirectiveUnitSize(DataDirective)
           /\ DataArgument.node_type = "ConstInteger"
                => AppendedUnits = <<BinaryConstUnit(DirectiveUnitSize(DataDirective),
                                                     DataArgument.value)>>
           /\ DataArgument.node_type = "String"
                => AppendedUnits = StringUnits(DataDirective, DataArgument.text)
           /\ DataArgument.node_type = "Identifier"
                => AppendedUnits = <<BinaryRefUnit(DirectiveUnitSize(DataDirective),
                                                   DataArgument.text)>>]_vars

(***************************************************************************)
(* Properties of the lexer.                                                *)
(***************************************************************************)
\* the line feeds of the source before byte at, and the byte behind the last
\* of them
LineFeedsBefore(code, at) == {i \in 1..at : code[i] = "\n"}

LineStart(code, at) ==
    IF LineFeedsBefore(code, at) = {} THEN 0
    ELSE CHOOSE i \in LineFeedsBefore(code, at) : \A j \in LineFeedsBefore(code, at) : j <= i

\* C22: every token the lexer emits carries the 1-based number of the line
\* it starts on and the 1-based column of its first character in that line
C22_TokenPositionsOneBased ==
    \A i \in DOMAIN lexer.tokens :
        /\ lexer.tokens[i].line
             = Cardinality(LineFeedsBefore(lexer.code, lexer.starts[i])) + 1
        /\ lexer.tokens[i].column
             = lexer.starts[i] - LineStart(lexer.code, lexer.starts[i]) + 1

(***************************************************************************)
(* Properties of macro calls.                                              *)
(***************************************************************************)
\* a turn of the loop of preprocess that takes the name of a known macro,
\* the macro, and the arguments of the call
MacroCallTurn ==
    /\ pp_status = "run" /\ pp_iter # <<>>
    /\ Head(pp_iter).kind = "Identifier"
    /\ Head(pp_iter).slice \in DOMAIN macro_list
    /\ <<pp_iter, pp_new, pp_status>>' # <<pp_iter, pp_new, pp_status>>

CalledMacro == macro_list[Head(pp_iter).slice]

WithParentheses == Len(pp_iter) >= 2 /\ pp_iter[2].kind = "LParen"

GivenArguments ==
    IF WithParentheses THEN CallArguments(Tail(Tail(pp_iter)), <<>>)
    ELSE [ok |-> TRUE, args |-> <<>>, rest |-> Tail(pp_iter)]

\* the body of a macro with each Escaped token that names a parameter
\* replaced by the argument of that parameter, every other token as it is
Substituted(self, args) ==
    [i \in 1..Len(self.token_list) |->
        IF self.token_list[i].kind = "Escaped"
           /\ ArgumentIndex(self.args, self.token_list[i].slice) # 0
        THEN args[ArgumentIndex(self.args, self.token_list[i].slice)]
        ELSE self.token_list[i]]

HasStrayEscaped(self) ==
    \E i \in 1..Len(self.token_list) :
        /\ self.token_list[i].kind = "Escaped"
        /\ ArgumentIndex(self.args, self.token_list[i].slice) = 0

\* C25: a macro call with as many arguments as the macro has parameters
\* yields the body's tokens in order, an Escaped token that names a
\* parameter replaced by the argument, every other token, an Escaped token
\* that names no parameter included, as it is
C25_ExpansionSubstitutesParameters ==
    [][(/\ MacroCallTurn
        /\ Len(pp_iter) >= 2
        /\ GivenArguments.ok
        /\ Len(GivenArguments.args) = Len(CalledMacro.args))
        => /\ pp_status' = "run"
           /\ pp_new' = pp_new \o Substituted(CalledMacro, GivenArguments.args)]_vars

\* C26: a call of a macro without parameters whose name is not followed by
\* an LParen takes the name alone off the tokens and appends the expansion,
\* also when the name is the last token
C26_NameAloneConsumed ==
    [][(/\ MacroCallTurn
        /\ ~WithParentheses
        /\ CalledMacro.args = <<>>
        /\ ~HasStrayEscaped(CalledMacro))
        => /\ pp_status' = "run"
           /\ pp_iter' = Tail(pp_iter)
           /\ pp_new' = pp_new \o CalledMacro.token_list]_vars

====
